---------------------------- MODULE Spec2Model ----------------------------
(***************************************************************************)
(* Hit resolution and entity lifecycle of WeaponsBallsVS                   *)
(* (src/samples/sample_benchmark.cpp).                                     *)
(*                                                                         *)
(* The sample object and the physics world it drives are one record, st;   *)
(* every handler of the sample is an operator from a record to the record  *)
(* it leaves behind, so that a call made inside a handler is an operator   *)
(* applied inside it.  Step() is the sequence of phases named by pc; the   *)
(* event loops of a phase take one engine event per transition.            *)
(*                                                                         *)
(* Time is ImGui::GetTime() counted in ticks of 0.05 s; linear speeds are *)
(* counted in units of 5 m/s.  Body handles are                            *)
(* small integers (0 is b2_nullBodyId); a shape handle is <<body, index>>. *)
(* Handles are never reused within a run.                                  *)
(***************************************************************************)
EXTENDS Integers, Sequences, FiniteSets, TLC

VARIABLES
    st,     \* the fields of the WeaponsBallsVS object and of its b2World,
            \* with the world's log of the destroy calls it received
    now,    \* ImGui::GetTime(), in ticks
    pc,     \* the phase of Step() that runs next
    evt,    \* the event the running loop took last (the local `evt` / `e`);
            \* the fixtures of a body that meet a wall or a weapon in the
            \* same world step are reported one after the other
    left,   \* engine events still to be delivered in this run
    hist    \* history: pairs damaged in their current overlap episode
            \* (hit), pairs damaged with no closing end-touch since (hitET),
            \* the frozen body the last physics advance moved (woke), the
            \* live projectiles fired as explosion projectiles (explosive),
            \* the bodies destroyed so far (destroyed)

vars == <<st, now, pc, evt, left, hist>>

---------------------------------------------------------------------------
(* Bounds of the model *)

MaxSteps == 3
MaxEvents == 2
MaxHP == 2
MaxProj == 4
MaxTicks == 3
MaxFrames == 4
MaxTurrets == 1
NumFixtures == 2

(* Program constants, in ticks of 0.05 s where they are durations *)

kHitCooldown == 20
kHitFreezeDuration == 5
kProjectileHitFreezeDefault == 1
kWeaponContactDestroyDelay == 10
kPoisonTickInterval == 20
kPoisonTickDamage == 2
kSlashTickDamage == 1
kSlashTickInterval == 2
kFireIntervalKnife == 20
kFireIntervalShuriken == 14
kFireIntervalExplosion == 20
kMaxSpearLevel == 10
kInitialHP == 100
kHealCap == 100
kShurikenDamage == 2
kMotorTorque == 50
kMotorFlipCooldown == 20

Null == 0

---------------------------------------------------------------------------
(* Partial maps (std::unordered_map) *)

Has(f, k) == k \in DOMAIN f

Get(f, k, d) == IF k \in DOMAIN f THEN f[k] ELSE d

Put(f, k, v) == [x \in (DOMAIN f) \cup {k} |-> IF x = k THEN v ELSE f[x]]

Erase(f, k) == [x \in (DOMAIN f) \ {k} |-> f[x]]

EraseAll(f, ks) == [x \in (DOMAIN f) \ ks |-> f[x]]

EmptyMap == [x \in {} |-> 0]

Max(a, b) == IF a >= b THEN a ELSE b

Min(a, b) == IF a <= b THEN a ELSE b

---------------------------------------------------------------------------
(* The roster and the handles *)

kAllCharacters == <<"Sword", "Katana", "Scythe", "Spear", "Shuriken",
                    "Explosion_Staff", "VampireKnife", "Wrench", "Unarmed">>

Kinds == {kAllCharacters[i] : i \in 1..Len(kAllCharacters)}

CharId(k) == CHOOSE i \in 1..Len(kAllCharacters) : kAllCharacters[i] = k

WeaponId(k) == IF k = "Unarmed" THEN CharId(k) ELSE 10 + CharId(k)

CharIds == {CharId(k) : k \in Kinds}

WeaponIds == {WeaponId(k) : k \in Kinds}

ProjIds == 21..(20 + MaxProj)

ProjKinds == {"Arrow", "Firework", "VampireKnife", "Shuriken", "Frost",
              "Explosion", "Electric", "PoisonDart", "Turret", "Flask"}

TurretIds == 31..(30 + MaxTurrets)

AllBodies == CharIds \cup WeaponIds \cup ProjIds \cup TurretIds

SkinShape(c) == <<c, 0>>

BodyShape(c) == <<c, 9>>

HitShapes(b) ==
    IF b = CharId("Unarmed") THEN {<<b, 1>>}
    ELSE IF b \in WeaponIds \cup ProjIds THEN {<<b, i>> : i \in 1..NumFixtures}
    ELSE {}

ShapesOf(b) ==
    IF b \in CharIds THEN {SkinShape(b), BodyShape(b)} \cup HitShapes(b)
    ELSE HitShapes(b)

Pairs == {<<v, a>> : v \in CharIds, a \in AllBodies}

---------------------------------------------------------------------------
(* The physics engine, as far as the sample observes it *)

BodyValid(s, b) == b /= Null /\ b \in s.valid

ShapeValid(s, sh) == sh[1] \in s.valid

JointValid(s, j) == j /= Null /\ j \in DOMAIN s.joints

IsProjectileCategory(b) == b \in ProjIds

b2CreateBody(s, b, v) ==
    [s EXCEPT !.valid = @ \cup {b},
              !.linVel = Put(@, b, v),
              !.angVel = Put(@, b, 1),
              !.awake = @ \cup {b}]

b2CreateRevoluteJoint(s, j, a, b) ==
    [s EXCEPT !.joints = Put(@, j, [bodyA |-> a, bodyB |-> b,
                                     enableMotor |-> TRUE,
                                     motorSpeed |-> 1,
                                     maxMotorTorque |-> kMotorTorque])]

b2DestroyBody(s, b) ==
    [s EXCEPT !.destroyedInvalid = @ \cup ({b} \ s.valid),
              !.valid = @ \ {b},
              !.linVel = Erase(@, b),
              !.angVel = Erase(@, b),
              !.awake = @ \ {b},
              !.joints = EraseAll(@, {j \in DOMAIN @ :
                                        @[j].bodyA = b \/ @[j].bodyB = b}),
              !.touching = {t \in @ : t[1][1] /= b /\ t[2][1] /= b},
              !.begun = {t \in @ : t[1][1] /= b /\ t[2][1] /= b}]

b2DestroyShapes(s, b) ==
    [s EXCEPT !.touching = {t \in @ : t[1][1] /= b},
              !.begun = {t \in @ : t[1][1] /= b}]

---------------------------------------------------------------------------
(* Construction *)

ClearAllCharacters ==
    [valid |-> {}, linVel |-> EmptyMap, angVel |-> EmptyMap, awake |-> {},
     joints |-> EmptyMap, touching |-> {}, begun |-> {}, nextProj |-> 1,
     destroyAsked |-> EmptyMap, destroyedInvalid |-> {},
     m_characterHP |-> EmptyMap,
     m_characterWeapon |-> EmptyMap,
     m_weaponDamage |-> EmptyMap,
     m_weaponOwner |-> EmptyMap,
     m_weaponToJoint |-> EmptyMap,
     m_shapeToCharacter |-> EmptyMap,
     m_shapeBaseColor |-> {},
     m_characterSkinShape |-> EmptyMap,
     m_characterId |-> [k \in Kinds |-> Null],
     m_weaponId |-> [k \in Kinds |-> Null],
     m_jointId |-> [k \in Kinds |-> Null],
     m_damageCooldown |-> EmptyMap,
     m_pairOverlap |-> EmptyMap,
     m_lastPairSwitchTime |-> EmptyMap,
     m_shurikenReboundsLeft |-> EmptyMap,
     m_lastHitBlinkTime |-> {},
     m_vampireKnifeHealCount |-> EmptyMap,
     m_vampireKnifeTotalHealed |-> EmptyMap,
     m_projectiles |-> EmptyMap,
     m_projectileSpawnPos |-> {},
     m_sfxSeenProjectiles |-> {},
     m_projectilesToDestroyMap |-> EmptyMap,
     m_charactersToKill |-> <<>>,
     m_activeFreezes |-> <<>>,
     m_activeExplosions |-> <<>>,
     nextTurret |-> 1,
     m_turretIds |-> {},
     m_turretOwner |-> EmptyMap,
     m_turretLastShot |-> EmptyMap,
     m_poisonBuildUp |-> EmptyMap,
     m_slashBuildUp |-> EmptyMap,
     m_lastVampireKnifeTime |-> 0,
     m_lastShurikenTime |-> 0,
     m_lastExplosionTime |-> 0 - 200,
     m_scythePoisonStacks |-> 1,
     m_katanaSlashStacks |-> 1,
     m_explosionDamage |-> 1,
     m_shurikenBonusRebounds |-> 0,
     m_spearLevel |-> 1,
     m_stepCounter |-> 0,
     m_nextReboundSoundAllowed |-> {}]

InitialWeaponDamage(k) ==
    IF k = "Explosion_Staff" THEN 0 ELSE 1

CreateCharacterBody(s, k, hp) ==
    LET c == CharId(k)
        s1 == b2CreateBody(s, c, 1)
    IN [s1 EXCEPT !.m_characterId[k] = c,
                  !.m_characterHP = Put(@, c, hp),
                  !.m_shapeToCharacter = Put(@, SkinShape(c), c),
                  !.m_characterSkinShape = Put(@, c, SkinShape(c)),
                  !.m_shapeBaseColor = @ \cup {SkinShape(c), BodyShape(c)}]

CreateCharacterSwordWithKnifeDamage(s, k, hp) ==
    LET c == CharId(k)
        w == WeaponId(k)
        s1 == b2CreateBody(CreateCharacterBody(s, k, hp), w, 1)
        s2 == [s1 EXCEPT !.m_weaponDamage = Put(@, w, 1)]
        s3 == b2CreateRevoluteJoint(s2, w, c, w)
    IN [s3 EXCEPT !.m_weaponId[k] = w,
                  !.m_jointId[k] = w,
                  !.m_weaponToJoint = Put(@, w, w),
                  !.m_weaponOwner = Put(@, w, c),
                  !.m_characterWeapon = Put(@, c, w)]

CreateCharacterSword(s, k, hp) ==
    LET c == CharId(k)
        w == WeaponId(k)
        s1 == b2CreateBody(CreateCharacterBody(s, k, hp), w, 1)
        s2 == IF k = "VampireKnife" THEN s1
              ELSE [s1 EXCEPT !.m_weaponDamage =
                                   Put(@, w, InitialWeaponDamage(k))]
        s3 == b2CreateRevoluteJoint(s2, w, c, w)
    IN [s3 EXCEPT !.m_weaponId[k] = w,
                  !.m_jointId[k] = w,
                  !.m_weaponToJoint = Put(@, w, w),
                  !.m_weaponOwner = Put(@, w, c),
                  !.m_characterWeapon = Put(@, c, w)]

CreateCharacterUnarmed(s, k, hp) ==
    LET c == CharId(k)
        s1 == CreateCharacterBody(s, k, hp)
    IN [s1 EXCEPT !.m_weaponDamage = Put(@, c, 1),
                  !.m_weaponOwner = Put(@, c, c),
                  !.m_characterWeapon = Put(@, c, c)]

CreateCharacter(s, k, hp) ==
    IF k = "Unarmed" THEN CreateCharacterUnarmed(s, k, hp)
    ELSE CreateCharacterSword(s, k, hp)

SpawnSelectedCharacters(char1, char2, hp1, hp2) ==
    CreateCharacter(CreateCharacter(ClearAllCharacters, char1, hp1),
                    char2, hp2)

---------------------------------------------------------------------------
(* Hit-freeze *)

kResumeLinClamp == 16
kResumeAngClamp == 40

FreezeIndex(s, b) ==
    {i \in 1..Len(s.m_activeFreezes) : s.m_activeFreezes[i].body = b}

IsBodyCurrentlyFrozen(s, b) == FreezeIndex(s, b) /= {}

IsProjectileBodyFast(s, b) == BodyValid(s, b) /\ IsProjectileCategory(b)

ExtendedEndTimeOverwritten(endTime, t, duration) == t + duration

ExtendedEndTime(endTime, t, duration) == Max(endTime, t + duration)

FreezeBodyAndJoint(s, t, body, joint, duration) ==
    IF ~BodyValid(s, body) THEN s
    ELSE IF IsProjectileBodyFast(s, body) THEN s
    ELSE IF IsBodyCurrentlyFrozen(s, body)
    THEN LET i == CHOOSE x \in FreezeIndex(s, body) :
                      \A y \in FreezeIndex(s, body) : x <= y
         IN [s EXCEPT !.m_activeFreezes[i].endTime =
                          ExtendedEndTime(@, t, duration)]
    ELSE LET hasMotor == JointValid(s, joint)
             data == [body |-> body,
                      joint |-> joint,
                      savedLinearVelocity |-> s.linVel[body],
                      savedAngularVelocity |-> s.angVel[body],
                      hadMotor |-> hasMotor,
                      motorWasEnabled |->
                          IF hasMotor THEN s.joints[joint].enableMotor
                          ELSE FALSE,
                      savedMotorSpeed |->
                          IF hasMotor THEN s.joints[joint].motorSpeed ELSE 0,
                      savedMaxMotorTorque |->
                          IF hasMotor THEN s.joints[joint].maxMotorTorque
                          ELSE 0,
                      endTime |-> t + duration,
                      wasAwake |-> body \in s.awake]
             s1 == [s EXCEPT !.linVel[body] = 0,
                             !.angVel[body] = 0,
                             !.awake = @ \ {body}]
             s2 == IF hasMotor
                   THEN [s1 EXCEPT !.joints[joint].enableMotor = FALSE]
                   ELSE s1
         IN [s2 EXCEPT !.m_activeFreezes = Append(@, data)]

FreezeCharacterAndWeapon(s, t, characterBody, duration) ==
    IF ~BodyValid(s, characterBody) THEN s
    ELSE LET s1 == FreezeBodyAndJoint(s, t, characterBody, Null, duration)
         IN IF Has(s1.m_characterWeapon, characterBody)
               /\ BodyValid(s1, s1.m_characterWeapon[characterBody])
            THEN LET w == s1.m_characterWeapon[characterBody]
                 IN FreezeBodyAndJoint(s1, t, w,
                                       Get(s1.m_weaponToJoint, w, Null),
                                       duration)
            ELSE s1

ClampLen(v, maxLen) == Min(v, maxLen)

Clamp(x, limit) == Max(0 - limit, Min(x, limit))

UpdateFreezeRecordWithoutHold(s, t, f) ==
    IF ~BodyValid(s, f.body) \/ t < f.endTime THEN s
    ELSE [s EXCEPT !.linVel[f.body] =
                       ClampLen(f.savedLinearVelocity, kResumeLinClamp),
                   !.angVel[f.body] =
                       Clamp(f.savedAngularVelocity, kResumeAngClamp),
                   !.awake = @ \cup {f.body}]

UpdateFreezeRecordWithoutMotor(s, t, f) ==
    IF ~BodyValid(s, f.body) THEN s
    ELSE IF t < f.endTime
    THEN LET s1 == [s EXCEPT !.linVel[f.body] = 0,
                             !.angVel[f.body] = 0,
                             !.awake = @ \ {f.body}]
         IN IF JointValid(s1, f.joint) /\ f.hadMotor
                /\ s1.joints[f.joint].enableMotor
            THEN [s1 EXCEPT !.joints[f.joint].enableMotor = FALSE]
            ELSE s1
    ELSE [s EXCEPT !.linVel[f.body] =
                       ClampLen(f.savedLinearVelocity, kResumeLinClamp),
                   !.angVel[f.body] =
                       Clamp(f.savedAngularVelocity, kResumeAngClamp),
                   !.awake = @ \cup {f.body}]

UpdateFreezeRecord(s, t, f) ==
    IF ~BodyValid(s, f.body) THEN s
    ELSE IF t < f.endTime
    THEN LET s1 == [s EXCEPT !.linVel[f.body] = 0,
                             !.angVel[f.body] = 0,
                             !.awake = @ \ {f.body}]
         IN IF JointValid(s1, f.joint) /\ f.hadMotor
                /\ s1.joints[f.joint].enableMotor
            THEN [s1 EXCEPT !.joints[f.joint].enableMotor = FALSE]
            ELSE s1
    ELSE LET s1 == [s EXCEPT
                      !.linVel[f.body] =
                          ClampLen(f.savedLinearVelocity, kResumeLinClamp),
                      !.angVel[f.body] =
                          Clamp(f.savedAngularVelocity, kResumeAngClamp),
                      !.awake = @ \cup {f.body}]
         IN IF JointValid(s1, f.joint) /\ f.hadMotor
            THEN [s1 EXCEPT
                    !.joints[f.joint].maxMotorTorque = f.savedMaxMotorTorque,
                    !.joints[f.joint].motorSpeed = f.savedMotorSpeed,
                    !.joints[f.joint].enableMotor = f.motorWasEnabled]
            ELSE s1

RECURSIVE UpdateFreezesFrom(_, _, _, _)
UpdateFreezesFrom(s, t, fs, i) ==
    IF i > Len(fs) THEN s
    ELSE UpdateFreezesFrom(UpdateFreezeRecord(s, t, fs[i]), t, fs, i + 1)

UpdateFreezes(s, t) ==
    LET fs == s.m_activeFreezes
        s1 == UpdateFreezesFrom(s, t, fs, 1)
    IN [s1 EXCEPT !.m_activeFreezes =
                      SelectSeq(fs, LAMBDA f : BodyValid(s, f.body)
                                               /\ t < f.endTime)]

---------------------------------------------------------------------------
(* Pair state and the projectile registry *)

ClearPairStateForBody(s, body) ==
    IF body = Null THEN s
    ELSE [s EXCEPT
            !.m_pairOverlap =
                EraseAll(@, {k \in DOMAIN @ : k[2] = body \/ k[1] = body}),
            !.m_damageCooldown =
                EraseAll(@, {k \in DOMAIN @ : k[2] = body \/ k[1] = body}),
            !.m_lastPairSwitchTime =
                EraseAll(@, {k \in DOMAIN @ : k[1] = body \/ k[2] = body})]

InProjectileSet(s, b, kind) == Has(s.m_projectiles, b) /\ s.m_projectiles[b] = kind

EraseBodyFromProjectileSets(s, b) ==
    [s EXCEPT !.m_projectiles = Erase(@, b)]

RegisterProjectile(s, proj, kind, owner) ==
    IF proj = Null THEN s
    ELSE LET s1 == [s EXCEPT !.m_projectiles = Put(@, proj, kind)]
             s2 == IF kind = "Shuriken"
                   THEN [s1 EXCEPT !.m_shurikenReboundsLeft =
                                       Put(@, proj, 1 + s.m_shurikenBonusRebounds)]
                   ELSE IF kind = "Explosion"
                   THEN [s1 EXCEPT !.m_weaponDamage = Put(@, proj, 0)]
                   ELSE s1
         IN [s2 EXCEPT !.m_weaponOwner = Put(@, proj, owner),
                       !.m_projectileSpawnPos =
                           IF BodyValid(s, proj) THEN @ \cup {proj}
                           ELSE @ \ {proj},
                       !.m_sfxSeenProjectiles = @ \cup {proj}]

ScheduleProjectileDestroy(s, id, when) ==
    IF ~Has(s.m_projectilesToDestroyMap, id)
       \/ when < s.m_projectilesToDestroyMap[id]
    THEN [s EXCEPT !.m_projectilesToDestroyMap = Put(@, id, when)]
    ELSE s

DestroyAsked(s, b) ==
    [s EXCEPT !.destroyAsked = Put(@, b, Get(@, b, 0) + 1)]

SafeDestroyBodyUnchecked(s, b) == b2DestroyBody(DestroyAsked(s, b), b)

SafeDestroyBody(s, b) ==
    IF BodyValid(s, b) THEN b2DestroyBody(DestroyAsked(s, b), b)
    ELSE DestroyAsked(s, b)

PurgeProjectile(s, body, destroyBody) ==
    IF body = Null THEN s
    ELSE LET s1 == EraseBodyFromProjectileSets(s, body)
             s2 == [s1 EXCEPT !.m_projectilesToDestroyMap = Erase(@, body),
                              !.m_projectileSpawnPos = @ \ {body},
                              !.m_shurikenReboundsLeft = Erase(@, body),
                              !.m_weaponOwner = Erase(@, body)]
             s3 == ClearPairStateForBody(s2, body)
             s4 == [s3 EXCEPT !.m_sfxSeenProjectiles = @ \ {body}]
         IN IF ~(body \in s4.valid) THEN s4
            ELSE IF destroyBody THEN SafeDestroyBody(s4, body)
            ELSE s4

---------------------------------------------------------------------------
(* Status accumulators and weapon passives *)

AddPoison(s, victimCharId, stacks, t) ==
    LET n == IF stacks <= 0 THEN 1 ELSE stacks
        p == Get(s.m_poisonBuildUp, victimCharId, <<0, 0>>)
        first == IF p[2] <= 0 THEN t ELSE p[1]
    IN [s EXCEPT !.m_poisonBuildUp = Put(@, victimCharId, <<first, p[2] + n>>)]

AddSlash(s, victimCharId, ticks, t) ==
    LET n == IF ticks <= 0 THEN 1 ELSE ticks
        p == Get(s.m_slashBuildUp, victimCharId, <<0, 0>>)
        first == IF p[2] <= 0 THEN t ELSE p[1]
    IN [s EXCEPT !.m_slashBuildUp = Put(@, victimCharId, <<first, p[2] + n>>)]

SpearJointForLevel(level) == 100 + level

BuildSpearFromSprite(s) ==
    LET spear == s.m_weaponId["Spear"]
    IN IF spear = Null THEN s
       ELSE LET s1 == b2DestroyShapes(
                          [s EXCEPT !.m_shapeToCharacter =
                                        EraseAll(@, HitShapes(spear)),
                                    !.m_shapeBaseColor = @ \ HitShapes(spear)],
                          spear)
                s2 == [s1 EXCEPT
                         !.m_pairOverlap =
                             EraseAll(@, {k \in DOMAIN @ : k[2] = spear}),
                         !.m_shapeBaseColor = @ \cup HitShapes(spear)]
                j == SpearJointForLevel(s.m_spearLevel)
                s3 == b2CreateRevoluteJoint(s2, j, s.m_characterId["Spear"],
                                            spear)
            IN [s3 EXCEPT !.m_jointId["Spear"] = j,
                          !.m_weaponToJoint = Put(@, spear, j),
                          !.awake = @ \cup ({spear, s.m_characterId["Spear"]}
                                            \cap s.valid)]

UpgradeSpearSprite(s) ==
    IF s.m_weaponId["Spear"] = Null THEN s
    ELSE IF s.m_spearLevel >= kMaxSpearLevel THEN s
    ELSE LET s1 == BuildSpearFromSprite(
                       [s EXCEPT !.m_spearLevel = @ + 1])
         IN [s1 EXCEPT !.m_weaponDamage =
                           Put(@, s.m_weaponId["Spear"], 1 + s1.m_spearLevel)]

IncrementWeaponDamage(s, k) ==
    LET id == s.m_weaponId[k]
    IN IF id = Null THEN s
       ELSE IF Has(s.m_weaponDamage, id) /\ s.m_weaponDamage[id] > 0
       THEN [s EXCEPT !.m_weaponDamage[id] = @ + 1]
       ELSE s

UpdateSpearPassives(s) ==
    IF s.m_weaponId["Spear"] = Null THEN s
    ELSE IF s.m_spearLevel < kMaxSpearLevel THEN UpgradeSpearSprite(s)
    ELSE [s EXCEPT !.m_weaponDamage =
                       Put(@, s.m_weaponId["Spear"],
                           Max(1, 1 + s.m_spearLevel))]

UpdateWeaponsPassives(s, weaponId) ==
    IF weaponId = s.m_weaponId["Sword"]
    THEN IncrementWeaponDamage(s, "Sword")
    ELSE IF weaponId = s.m_weaponId["Katana"]
    THEN [s EXCEPT !.m_katanaSlashStacks = @ + 1]
    ELSE IF weaponId = s.m_weaponId["Scythe"]
    THEN [s EXCEPT !.m_scythePoisonStacks = @ + 1]
    ELSE IF weaponId = s.m_weaponId["Spear"]
    THEN UpdateSpearPassives(s)
    ELSE IF weaponId = s.m_weaponId["Shuriken"]
    THEN [s EXCEPT !.m_shurikenBonusRebounds = @ + 1]
    ELSE IF weaponId = s.m_weaponId["Explosion_Staff"]
    THEN s
    ELSE IF weaponId = s.m_weaponId["VampireKnife"]
    THEN IncrementWeaponDamage(s, "VampireKnife")
    ELSE s

---------------------------------------------------------------------------
(* Deaths *)

RequestKillCharacterTwice(s, body) ==
    IF body /= Null
    THEN [s EXCEPT !.m_charactersToKill = Append(Append(@, body), body)]
    ELSE s

RequestKillCharacterDestroying(s, body) == SafeDestroyBody(s, body)

RequestKillCharacter(s, body) ==
    IF body /= Null
    THEN [s EXCEPT !.m_charactersToKill = Append(@, body)]
    ELSE s

EraseFreezesOf(s, b) ==
    [s EXCEPT !.m_activeFreezes = SelectSeq(@, LAMBDA f : f.body /= b)]

ClearWeaponSlotIfMatches(s, weapon) ==
    [s EXCEPT !.m_weaponId =
                  [k \in Kinds |-> IF k /= "Unarmed" /\ @[k] = weapon
                                   THEN Null ELSE @[k]]]

ClearCharacterSlotIfMatches(s, charBody) ==
    [s EXCEPT !.m_characterId =
                  [k \in Kinds |-> IF k /= "Unarmed" /\ @[k] = charBody
                                   THEN Null ELSE @[k]]]

OwnedProjectiles(s, charKey) ==
    {p \in DOMAIN s.m_projectiles :
        Has(s.m_weaponOwner, p) /\ s.m_weaponOwner[p] /= Null
        /\ s.m_weaponOwner[p] = charKey}

RECURSIVE PurgeOwnedDestroying(_, _, _)
PurgeOwnedDestroying(s, ps, t) ==
    IF ps = {} THEN s
    ELSE LET p == CHOOSE x \in ps : \A y \in ps : x <= y
         IN PurgeOwnedDestroying(PurgeProjectile(s, p, TRUE), ps \ {p}, t)

RECURSIVE PurgeOwned(_, _, _)
PurgeOwned(s, ps, t) ==
    IF ps = {} THEN s
    ELSE LET p == CHOOSE x \in ps : \A y \in ps : x <= y
         IN PurgeOwned(
                ScheduleProjectileDestroy(PurgeProjectile(s, p, FALSE), p, t),
                ps \ {p}, t)

KillWeaponOf(s, charKey) ==
    IF ~Has(s.m_characterWeapon, charKey) THEN s
    ELSE LET weaponBody == s.m_characterWeapon[charKey]
             s1 == EraseFreezesOf(s, weaponBody)
             s2 == IF BodyValid(s1, weaponBody)
                   THEN [s1 EXCEPT
                           !.m_shapeBaseColor = @ \ ShapesOf(weaponBody),
                           !.m_shapeToCharacter =
                               EraseAll(@, ShapesOf(weaponBody))]
                   ELSE s1
             s3 == [s2 EXCEPT !.m_weaponDamage = Erase(@, weaponBody),
                              !.m_weaponOwner = Erase(@, weaponBody)]
             s4 == SafeDestroyBody(ClearWeaponSlotIfMatches(s3, weaponBody),
                                   weaponBody)
         IN [s4 EXCEPT !.m_characterWeapon = Erase(@, charKey)]

DestroyTurret(s, turret) ==
    IF turret = Null THEN s
    ELSE SafeDestroyBody(
             [s EXCEPT !.m_turretOwner = Erase(@, turret),
                       !.m_turretIds = @ \ {turret},
                       !.m_turretLastShot = Erase(@, turret)],
             turret)

RECURSIVE DestroyTurretsOf(_, _)
DestroyTurretsOf(s, turrets) ==
    IF turrets = {} THEN s
    ELSE LET x == CHOOSE y \in turrets : \A z \in turrets : y <= z
         IN DestroyTurretsOf(DestroyTurret(EraseFreezesOf(s, x), x),
                             turrets \ {x})

DestroyTurretsOwnedBy(s, charBody) ==
    DestroyTurretsOf(s, {x \in DOMAIN s.m_turretOwner :
                           x /= Null /\ s.m_turretOwner[x] = charBody})

KillCharacterNow(s, t, charBody) ==
    IF charBody = Null THEN s
    ELSE LET s1 == EraseFreezesOf(s, charBody)
             s2 == [s1 EXCEPT
                      !.m_lastHitBlinkTime = @ \ {charBody},
                      !.m_poisonBuildUp = Erase(@, charBody),
                      !.m_vampireKnifeHealCount = Erase(@, charBody),
                      !.m_vampireKnifeTotalHealed = Erase(@, charBody)]
             s3 == IF BodyValid(s2, charBody)
                   THEN [s2 EXCEPT
                           !.m_shapeToCharacter =
                               EraseAll(@, ShapesOf(charBody)),
                           !.m_shapeBaseColor = @ \ ShapesOf(charBody)]
                   ELSE s2
             s4 == [s3 EXCEPT !.m_characterSkinShape = Erase(@, charBody)]
             s5 == DestroyTurretsOwnedBy(KillWeaponOf(s4, charBody), charBody)
             s6 == PurgeOwned(s5, OwnedProjectiles(s5, charBody), t)
             s7 == [s6 EXCEPT
                      !.m_damageCooldown =
                          EraseAll(@, {k \in DOMAIN @ :
                                         k[1] = charBody \/ k[2] = charBody}),
                      !.m_pairOverlap =
                          EraseAll(@, {k \in DOMAIN @ :
                                         k[1] = charBody \/ k[2] = charBody})]
             s8 == ClearCharacterSlotIfMatches(s7, charBody)
         IN SafeDestroyBody(
                [s8 EXCEPT !.m_characterHP = Erase(@, charBody)],
                charBody)

RECURSIVE KillAll(_, _, _)
KillAll(s, t, bodies) ==
    IF bodies = {} THEN s
    ELSE LET b == CHOOSE x \in bodies : \A y \in bodies : x <= y
         IN KillAll(KillCharacterNow(s, t, b), t, bodies \ {b})

RECURSIVE KillEach(_, _, _, _)
KillEach(s, t, q, i) ==
    IF i > Len(q) THEN s
    ELSE KillEach(KillCharacterNow(s, t, q[i]), t, q, i + 1)

ProcessPendingCharacterDeathsPerRequest(s, t) ==
    IF s.m_charactersToKill = <<>> THEN s
    ELSE [KillEach(s, t, s.m_charactersToKill, 1)
             EXCEPT !.m_charactersToKill = <<>>]

ProcessPendingCharacterDeathsDropping(s, t) ==
    [s EXCEPT !.m_charactersToKill = <<>>]

ProcessPendingCharacterDeaths(s, t) ==
    IF s.m_charactersToKill = <<>> THEN s
    ELSE LET q == s.m_charactersToKill
             s1 == KillAll(s, t, {q[i] : i \in 1..Len(q)})
         IN [s1 EXCEPT !.m_charactersToKill = <<>>]

---------------------------------------------------------------------------
(* ProcessHitSensors: one begin-touch event *)

NewTurret(s) == 30 + s.nextTurret

TurretHandlesLeft(s) == MaxTurrets - (s.nextTurret - 1)

SummonTurretFromWrench(s) ==
    LET turretId == NewTurret(s)
        anchorId == 10 + turretId
        s1 == b2CreateBody(b2CreateBody(s, anchorId, 0), turretId, 0)
        s2 == b2CreateRevoluteJoint(s1, 200 + turretId, anchorId, turretId)
    IN [s2 EXCEPT !.nextTurret = @ + 1,
                  !.m_turretIds = @ \cup {turretId},
                  !.m_turretOwner = Put(@, turretId, s.m_characterId["Wrench"])]

TurretShotSpent(s, t, attackerBody) ==
    IF InProjectileSet(s, attackerBody, "Turret")
    THEN [s EXCEPT !.m_projectilesToDestroyMap = Put(@, attackerBody, t)]
    ELSE s

WrenchHitSummons(s, attackerBody) ==
    IF attackerBody = s.m_weaponId["Wrench"]
    THEN SummonTurretFromWrench(s)
    ELSE s

ConsumedOnFirstEnter == {"Arrow", "Firework", "VampireKnife", "Frost",
                         "Explosion", "Electric", "Flask"}

OwnerBlocksHitDirectOnly(s, victimCharId, attackerId) ==
    Has(s.m_weaponOwner, attackerId)
    /\ s.m_weaponOwner[attackerId] = victimCharId

OwnerBlocksHit(s, victimCharId, attackerId) ==
    /\ Has(s.m_weaponOwner, attackerId)
    /\ LET owner == s.m_weaponOwner[attackerId]
       IN IF Has(s.m_turretOwner, owner)
          THEN s.m_turretOwner[owner] = victimCharId
          ELSE owner = victimCharId

ContactDamageOfExplosion(s, attackerBody) ==
    IF InProjectileSet(s, attackerBody, "Explosion") THEN s.m_explosionDamage
    ELSE Get(s.m_weaponDamage, attackerBody, 0)

ContactDamage(s, attackerBody) ==
    IF InProjectileSet(s, attackerBody, "Explosion") THEN 0
    ELSE Get(s.m_weaponDamage, attackerBody, 0)

AllowDamageOnCooldownOnly(s, t, pk) == t >= Get(s.m_damageCooldown, pk, 0)

AllowDamage(s, t, pk) ==
    Get(s.m_pairOverlap, pk, 0) = 0 /\ t >= Get(s.m_damageCooldown, pk, 0)

DamagedHPUnclamped(hp, dmg) == hp - dmg

DamagedHP(hp, dmg) == Max(0, hp - dmg)

HealedHPUncapped(hp, healAmount) == hp + healAmount

HealedHP(hp, healAmount) == Min(kHealCap, hp + healAmount)

VampireLifesteal(s, attackerBody, dmg) ==
    IF InProjectileSet(s, attackerBody, "VampireKnife")
       /\ Has(s.m_weaponOwner, attackerBody)
       /\ Has(s.m_characterHP, s.m_weaponOwner[attackerBody])
    THEN LET ownerId == s.m_weaponOwner[attackerBody]
             healCount == Get(s.m_vampireKnifeHealCount, ownerId, 0)
             totalHealed == Get(s.m_vampireKnifeTotalHealed, ownerId, 0)
             healAmount == Max(1, dmg \div (1 + healCount))
             newTotal == totalHealed + healAmount
         IN [s EXCEPT
               !.m_characterHP[ownerId] = HealedHP(@, healAmount),
               !.m_vampireKnifeHealCount = Put(@, ownerId, healCount + 1),
               !.m_vampireKnifeTotalHealed = Put(@, ownerId, newTotal),
               !.m_weaponDamage =
                   Put(@, s.m_weaponId["VampireKnife"],
                       Max(1 + newTotal \div 10, 1))]
    ELSE s

FreezeVictimSkipped(s, t, skinBody, attackerBody, freezeDuration) == s

FreezeVictimWithJoint(s, t, skinBody, attackerBody, freezeDuration) ==
    IF IsBodyCurrentlyFrozen(s, skinBody) THEN s
    ELSE LET victimJoint ==
                 IF Has(s.m_characterWeapon, skinBody)
                 THEN Get(s.m_weaponToJoint, s.m_characterWeapon[skinBody],
                          Null)
                 ELSE Null
         IN FreezeBodyAndJoint(s, t, skinBody, victimJoint, freezeDuration)

FreezeVictim(s, t, skinBody, attackerBody, freezeDuration) ==
    IF IsBodyCurrentlyFrozen(s, skinBody) THEN s
    ELSE LET attackerIsUnarmed == attackerBody = s.m_characterId["Unarmed"]
             victimJoint ==
                 IF ~attackerIsUnarmed /\ Has(s.m_characterWeapon, skinBody)
                 THEN Get(s.m_weaponToJoint, s.m_characterWeapon[skinBody],
                          Null)
                 ELSE Null
         IN FreezeBodyAndJoint(s, t, skinBody, victimJoint, freezeDuration)

FreezeAttacker(s, t, attackerBody) ==
    IF IsProjectileCategory(attackerBody) THEN s
    ELSE LET attackerCharBody == Get(s.m_weaponOwner, attackerBody, Null)
             s1 == IF attackerCharBody /= Null
                      /\ ~IsBodyCurrentlyFrozen(s, attackerCharBody)
                   THEN FreezeBodyAndJoint(s, t, attackerCharBody, Null,
                                           kHitFreezeDuration)
                   ELSE s
             w0 == Get(s1.m_characterWeapon, attackerBody, Null)
             attackerWeaponBody == IF w0 = Null THEN attackerBody ELSE w0
         IN IF IsBodyCurrentlyFrozen(s1, attackerWeaponBody) THEN s1
            ELSE FreezeBodyAndJoint(
                     s1, t, attackerWeaponBody,
                     Get(s1.m_weaponToJoint, attackerWeaponBody, Null),
                     kHitFreezeDuration)

ApplyHitEffects(s, t, victimCharId, attackerBody, dmg, hpBefore) ==
    LET hp == s.m_characterHP[victimCharId]
        pk == <<victimCharId, attackerBody>>
        isProjectileBody == Has(s.m_projectiles, attackerBody)
        s1 == [s EXCEPT !.m_lastHitBlinkTime = @ \cup {victimCharId}]
        s2 == IF InProjectileSet(s1, attackerBody, "Shuriken")
              THEN [s1 EXCEPT
                      !.m_shurikenBonusRebounds = @ + (hpBefore - hp),
                      !.m_projectilesToDestroyMap = Put(@, attackerBody, t)]
              ELSE s1
        s3 == IF attackerBody = s2.m_weaponId["Katana"]
              THEN AddSlash(s2, victimCharId,
                            Max(1, s2.m_katanaSlashStacks), t)
              ELSE s2
        s4 == IF attackerBody = s3.m_weaponId["Scythe"]
              THEN AddPoison(s3, victimCharId,
                             Max(1, s3.m_scythePoisonStacks), t)
              ELSE s3
        s5 == VampireLifesteal(s4, attackerBody, dmg)
        s5b == WrenchHitSummons(TurretShotSpent(s5, t, attackerBody),
                                attackerBody)
        freezeDuration == IF isProjectileBody
                          THEN kProjectileHitFreezeDefault
                          ELSE kHitFreezeDuration
        s6 == UpdateWeaponsPassives(s5b, attackerBody)
        s7 == FreezeVictim(s6, t, victimCharId, attackerBody, freezeDuration)
        s8 == FreezeAttacker(s7, t, attackerBody)
    IN IF hp = 0 THEN RequestKillCharacter(s8, victimCharId) ELSE s8

ApplyDamageWithoutHPTest(s, t, victimCharId, attackerBody) ==
    IF ~Has(s.m_characterHP, victimCharId) THEN s
    ELSE LET dmg == ContactDamage(s, attackerBody)
             hpBefore == s.m_characterHP[victimCharId]
             s1 == [s EXCEPT !.m_characterHP[victimCharId] =
                                 DamagedHP(@, dmg)]
         IN ApplyHitEffects(s1, t, victimCharId, attackerBody, dmg, hpBefore)

ApplyDamage(s, t, victimCharId, attackerBody) ==
    IF ~Has(s.m_characterHP, victimCharId) THEN s
    ELSE LET dmg == ContactDamage(s, attackerBody)
             hpBefore == s.m_characterHP[victimCharId]
         IN IF hpBefore > 0 /\ dmg > 0
            THEN LET s1 == [s EXCEPT !.m_characterHP[victimCharId] =
                                         DamagedHP(@, dmg)]
                 IN IF s1.m_characterHP[victimCharId] < hpBefore
                    THEN ApplyHitEffects(s1, t, victimCharId, attackerBody,
                                         dmg, hpBefore)
                    ELSE s1
            ELSE s

ConsumeProjectileShurikenOnly(s, t, attackerBody) ==
    IF InProjectileSet(s, attackerBody, "Shuriken")
    THEN LET r == Get(s.m_shurikenReboundsLeft, attackerBody, 0) - 1
             s1 == [s EXCEPT !.m_shurikenReboundsLeft =
                                 Put(@, attackerBody, r)]
         IN IF r < 0
            THEN [s1 EXCEPT !.m_projectilesToDestroyMap =
                                Put(@, attackerBody, t)]
            ELSE s1
    ELSE s

ConsumeProjectile(s, t, attackerBody) ==
    IF InProjectileSet(s, attackerBody, "Shuriken")
    THEN LET r == Get(s.m_shurikenReboundsLeft, attackerBody, 0) - 1
             s1 == [s EXCEPT !.m_shurikenReboundsLeft =
                                 Put(@, attackerBody, r)]
         IN IF r < 0
            THEN [s1 EXCEPT !.m_projectilesToDestroyMap =
                                Put(@, attackerBody, t)]
            ELSE s1
    ELSE IF Has(s.m_projectiles, attackerBody)
            /\ s.m_projectiles[attackerBody] \in ConsumedOnFirstEnter
    THEN [s EXCEPT !.m_projectilesToDestroyMap = Put(@, attackerBody, t)]
    ELSE s

BeginTouchUnchecked(s, t, attackerShape, skinShape) ==
    [s EXCEPT !.m_pairOverlap =
                  Put(@, <<skinShape[1], attackerShape[1]>>,
                      Get(@, <<skinShape[1], attackerShape[1]>>, 0) + 1)]

BeginTouch(s, t, attackerShape, skinShape) ==
    LET attackerBody == attackerShape[1]
        skinBody == skinShape[1]
    IN IF ~ShapeValid(s, attackerShape) \/ ~ShapeValid(s, skinShape) THEN s
       ELSE IF ~BodyValid(s, attackerBody) \/ ~BodyValid(s, skinBody) THEN s
       ELSE IF ~Has(s.m_shapeToCharacter, skinShape) THEN s
       ELSE LET victimCharId == s.m_shapeToCharacter[skinShape]
                pk == <<victimCharId, attackerBody>>
            IN IF OwnerBlocksHit(s, victimCharId, attackerBody) THEN s
               ELSE LET overlap == Get(s.m_pairOverlap, pk, 0)
                        firstEnter == overlap = 0
                        nextAllowedTime == Get(s.m_damageCooldown, pk, 0)
                        allowDamage == AllowDamage(s, t, pk)
                        s1 == [s EXCEPT
                                 !.m_pairOverlap = Put(@, pk, overlap + 1),
                                 !.m_damageCooldown =
                                     Put(@, pk, IF allowDamage
                                                THEN t + kHitCooldown
                                                ELSE nextAllowedTime)]
                        s2 == IF allowDamage
                              THEN ApplyDamage(s1, t, victimCharId,
                                               attackerBody)
                              ELSE s1
                    IN IF firstEnter
                       THEN ConsumeProjectile(s2, t, attackerBody)
                       ELSE s2

EndTouchKeepingZero(s, attackerShape, skinShape) ==
    LET pk == <<skinShape[1], attackerShape[1]>>
    IN IF ~Has(s.m_pairOverlap, pk) THEN s
       ELSE [s EXCEPT !.m_pairOverlap[pk] = Max(0, @ - 1)]

EndTouch(s, attackerShape, skinShape) ==
    LET attackerBody == attackerShape[1]
        skinBody == skinShape[1]
    IN IF ~ShapeValid(s, attackerShape) \/ ~ShapeValid(s, skinShape) THEN s
       ELSE IF ~BodyValid(s, attackerBody) \/ ~BodyValid(s, skinBody) THEN s
       ELSE IF ~Has(s.m_shapeToCharacter, skinShape) THEN s
       ELSE LET pk == <<s.m_shapeToCharacter[skinShape], attackerBody>>
            IN IF ~Has(s.m_pairOverlap, pk) THEN s
               ELSE LET n == Max(0, s.m_pairOverlap[pk] - 1)
                    IN IF n = 0
                       THEN [s EXCEPT !.m_pairOverlap = Erase(@, pk)]
                       ELSE [s EXCEPT !.m_pairOverlap[pk] = n]

KillZoneTouch(s, t, projBody) ==
    IF BodyValid(s, projBody) THEN ScheduleProjectileDestroy(s, projBody, t)
    ELSE s

---------------------------------------------------------------------------
(* Projectile contacts with walls and weapons *)

WallContactDestroying(s, t, proj) == PurgeProjectile(s, proj, TRUE)

WallContact(s, t, proj) ==
    IF ~BodyValid(s, proj) THEN s
    ELSE IF InProjectileSet(s, proj, "Shuriken")
    THEN LET r == Get(s.m_shurikenReboundsLeft, proj, 0) - 1
             s1 == [s EXCEPT !.m_shurikenReboundsLeft = Put(@, proj, r)]
         IN IF r < 0
            THEN [s1 EXCEPT !.m_projectilesToDestroyMap = Put(@, proj, t)]
            ELSE s1
    ELSE [s EXCEPT !.m_projectilesToDestroyMap = Put(@, proj, t)]

WeaponContact(s, t, proj) ==
    IF ~BodyValid(s, proj) THEN s
    ELSE LET s1 == [s EXCEPT !.m_nextReboundSoundAllowed = @ \cup {proj}]
         IN IF InProjectileSet(s1, proj, "Shuriken")
            THEN LET r == Get(s1.m_shurikenReboundsLeft, proj, 0) - 1
                     s2 == [s1 EXCEPT !.m_shurikenReboundsLeft =
                                          Put(@, proj, r)]
                 IN IF r < 0
                    THEN [s2 EXCEPT !.m_projectilesToDestroyMap =
                                        Put(@, proj, t)]
                    ELSE s2
            ELSE LET when == t + kWeaponContactDestroyDelay
                 IN IF ~Has(s1.m_projectilesToDestroyMap, proj)
                       \/ when < s1.m_projectilesToDestroyMap[proj]
                    THEN [s1 EXCEPT !.m_projectilesToDestroyMap =
                                        Put(@, proj, when)]
                    ELSE s1

---------------------------------------------------------------------------
(* Explosions and the deferred destruction of projectiles *)

GetCharacterBodyByStoredId(s, key) ==
    IF \E k \in Kinds : BodyValid(s, s.m_characterId[k])
                        /\ s.m_characterId[k] = key
    THEN key
    ELSE Null

ExplodeOn(s, t, charId, damage) ==
    IF Has(s.m_characterHP, charId) /\ s.m_characterHP[charId] > 0
    THEN LET hpBefore == s.m_characterHP[charId]
             s1 == [s EXCEPT !.m_characterHP[charId] = DamagedHP(@, damage)]
         IN IF s1.m_characterHP[charId] < hpBefore
            THEN LET s2 == [s1 EXCEPT !.m_lastHitBlinkTime = @ \cup {charId}]
                     s3 == IF ~IsBodyCurrentlyFrozen(s2, charId)
                           THEN FreezeCharacterAndWeapon(
                                    s2, t, charId, kProjectileHitFreezeDefault)
                           ELSE s2
                 IN IF s3.m_characterHP[charId] = 0
                    THEN RequestKillCharacter(s3, charId)
                    ELSE s3
            ELSE s1
    ELSE s

RECURSIVE ExplodeAll(_, _, _, _, _, _)
ExplodeAll(s, t, i, owner, near, damage) ==
    IF i > Len(kAllCharacters) THEN s
    ELSE LET charId == s.m_characterId[kAllCharacters[i]]
         IN IF charId = Null \/ charId = owner \/ ~(charId \in near)
            THEN ExplodeAll(s, t, i + 1, owner, near, damage)
            ELSE ExplodeAll(ExplodeOn(s, t, charId, damage), t, i + 1,
                            owner, near, damage)

TriggerExplosion(s, t, projId, near) ==
    IF ~BodyValid(s, projId) THEN s
    ELSE LET own == Get(s.m_weaponDamage, projId, 0)
             damage == IF own > 0 THEN own ELSE s.m_explosionDamage
             ownerCharStored == Get(s.m_weaponOwner, projId, Null)
             s0 == [s EXCEPT !.m_activeExplosions =
                                 Append(@, [startTime |-> t,
                                            damage |-> damage,
                                            ownerCharacterId |->
                                                ownerCharStored])]
             s1 == ExplodeAll(s0, t, 1, ownerCharStored, near, damage)
             didDamage == s1.m_characterHP /= s.m_characterHP
         IN IF didDamage
            THEN LET s2 == [s1 EXCEPT !.m_explosionDamage = Min(@ + 1, 10)]
                     ownerBody == GetCharacterBodyByStoredId(
                                      s2, ownerCharStored)
                 IN IF BodyValid(s2, ownerBody)
                       /\ ~IsBodyCurrentlyFrozen(s2, ownerBody)
                    THEN FreezeCharacterAndWeapon(
                             s2, t, ownerBody, kProjectileHitFreezeDefault)
                    ELSE s2
            ELSE s1

FlushOnePurgingFirst(s, t, id, near) ==
    LET s1 == PurgeProjectile(s, id, TRUE)
    IN IF InProjectileSet(s, id, "Explosion") /\ BodyValid(s1, id)
       THEN TriggerExplosion(s1, t, id, near)
       ELSE s1

FlushOne(s, t, id, near) ==
    LET s1 == IF InProjectileSet(s, id, "Explosion") /\ BodyValid(s, id)
              THEN TriggerExplosion(s, t, id, near)
              ELSE s
    IN PurgeProjectile(s1, id, TRUE)

RECURSIVE FlushAll(_, _, _, _)
FlushAll(s, t, ids, near) ==
    IF ids = {} THEN s
    ELSE LET id == CHOOSE x \in ids : \A y \in ids : x <= y
         IN FlushAll(FlushOne(s, t, id, near), t, ids \ {id}, near)

DueProjectiles(s, t) ==
    {p \in DOMAIN s.m_projectilesToDestroyMap :
        t >= s.m_projectilesToDestroyMap[p]}

ProcessProjectileDestructions(s, t, near) ==
    LET toDestroy == DueProjectiles(s, t)
        s1 == [s EXCEPT !.m_projectilesToDestroyMap = EraseAll(@, toDestroy)]
    IN FlushAll(s1, t, toDestroy, near)

---------------------------------------------------------------------------
(* Status ticks *)

PoisonDueAtOnce(lastTick, ticksLeft, t) == ticksLeft > 0

PoisonDue(lastTick, ticksLeft, t) ==
    ticksLeft > 0 /\ t - lastTick >= kPoisonTickInterval

PoisonTick(s, t, victimId) ==
    LET lastTick == s.m_poisonBuildUp[victimId][1]
        ticksLeft == s.m_poisonBuildUp[victimId][2]
    IN IF PoisonDue(lastTick, ticksLeft, t)
       THEN IF Has(s.m_characterHP, victimId)
                 /\ s.m_characterHP[victimId] > 0
            THEN LET s1 == [s EXCEPT
                              !.m_characterHP[victimId] =
                                  DamagedHP(@, kPoisonTickDamage),
                              !.m_poisonBuildUp[victimId] =
                                  <<t, ticksLeft - 1>>,
                              !.m_lastHitBlinkTime = @ \cup {victimId}]
                 IN IF s1.m_characterHP[victimId] = 0
                    THEN LET victimBody ==
                                 GetCharacterBodyByStoredId(s1, victimId)
                             s2 == IF BodyValid(s1, victimBody)
                                   THEN RequestKillCharacter(s1, victimBody)
                                   ELSE s1
                         IN [s2 EXCEPT !.m_poisonBuildUp = Erase(@, victimId)]
                    ELSE IF ticksLeft - 1 <= 0
                    THEN [s1 EXCEPT !.m_poisonBuildUp = Erase(@, victimId)]
                    ELSE s1
            ELSE [s EXCEPT !.m_poisonBuildUp = Erase(@, victimId)]
       ELSE IF ticksLeft <= 0
       THEN [s EXCEPT !.m_poisonBuildUp = Erase(@, victimId)]
       ELSE s

SlashTick(s, t, victimId) ==
    LET lastTick == s.m_slashBuildUp[victimId][1]
        ticksLeft == s.m_slashBuildUp[victimId][2]
    IN IF ticksLeft <= 0
       THEN [s EXCEPT !.m_slashBuildUp = Erase(@, victimId)]
       ELSE IF t - lastTick < kSlashTickInterval THEN s
       ELSE LET s1 == IF Has(s.m_characterHP, victimId)
                         /\ s.m_characterHP[victimId] > 0
                      THEN LET s2 == [s EXCEPT
                                        !.m_characterHP[victimId] =
                                            DamagedHP(@, kSlashTickDamage),
                                        !.m_lastHitBlinkTime =
                                            @ \cup {victimId}]
                               victimBody ==
                                   GetCharacterBodyByStoredId(s2, victimId)
                           IN IF s2.m_characterHP[victimId] = 0
                                 /\ BodyValid(s2, victimBody)
                              THEN RequestKillCharacter(s2, victimBody)
                              ELSE s2
                      ELSE s
            IN IF ticksLeft - 1 <= 0
               THEN [s1 EXCEPT !.m_slashBuildUp = Erase(@, victimId)]
               ELSE [s1 EXCEPT !.m_slashBuildUp[victimId] =
                                   <<t, ticksLeft - 1>>]

RECURSIVE UpdatePoisonFor(_, _, _)
UpdatePoisonFor(s, t, ids) ==
    IF ids = {} THEN s
    ELSE LET v == CHOOSE x \in ids : \A y \in ids : x <= y
         IN UpdatePoisonFor(PoisonTick(s, t, v), t, ids \ {v})

UpdatePoison(s, t) == UpdatePoisonFor(s, t, DOMAIN s.m_poisonBuildUp)

RECURSIVE UpdateSlashesFor(_, _, _)
UpdateSlashesFor(s, t, ids) ==
    IF ids = {} THEN s
    ELSE LET v == CHOOSE x \in ids : \A y \in ids : x <= y
         IN UpdateSlashesFor(SlashTick(s, t, v), t, ids \ {v})

UpdateSlashes(s, t) == UpdateSlashesFor(s, t, DOMAIN s.m_slashBuildUp)

---------------------------------------------------------------------------
(* Velocities, automatic fire *)

m_minSpeedAll == 2

kProjectileSpeed == 5

kExplosionProjectileSpeed == 2

kVampireKnifeVolley == 4

kExplosionAnimDuration == 12

AnimateExplosions(s, t) ==
    [s EXCEPT !.m_activeExplosions =
                  SelectSeq(@, LAMBDA e :
                                   t - e.startTime < kExplosionAnimDuration)]

EnsureMinVelocity(s, body, minVel) ==
    IF ~BodyValid(s, body) THEN s
    ELSE IF s.linVel[body] < minVel
    THEN [s EXCEPT !.linVel[body] = minVel, !.awake = @ \cup {body}]
    ELSE s

RECURSIVE MaintainMinVelocityFrom(_, _)
MaintainMinVelocityFrom(s, i) ==
    IF i > Len(kAllCharacters) THEN s
    ELSE LET id == s.m_characterId[kAllCharacters[i]]
         IN IF ~BodyValid(s, id) \/ IsBodyCurrentlyFrozen(s, id)
            THEN MaintainMinVelocityFrom(s, i + 1)
            ELSE MaintainMinVelocityFrom(
                     EnsureMinVelocity(s, id, m_minSpeedAll), i + 1)

MaintainMinVelocityForAll(s) == MaintainMinVelocityFrom(s, 1)

UpdateUnarmedSpeedRampAndDamage(s) ==
    LET u == s.m_characterId["Unarmed"]
    IN IF ~BodyValid(s, u) THEN s
       ELSE [s EXCEPT !.m_weaponDamage =
                          Put(@, u, Max(1, Min(12, s.linVel[u])))]

NewProjectile(s) == 20 + s.nextProj

SpawnProjectile(s, kind, owner, dmg, speed) ==
    LET p == NewProjectile(s)
        s1 == [b2CreateBody(s, p, speed) EXCEPT
                 !.nextProj = @ + 1,
                 !.m_weaponDamage = Put(@, p, dmg)]
    IN RegisterProjectile(s1, p, kind, owner)

RECURSIVE FireKnives(_, _, _)
FireKnives(s, n, baseDmg) ==
    IF n = 0 THEN s
    ELSE FireKnives(SpawnProjectile(s, "VampireKnife",
                                    s.m_characterId["VampireKnife"], baseDmg,
                                    kProjectileSpeed),
                    n - 1, baseDmg)

FireVampireKnifeProjectile(s) ==
    IF s.m_weaponId["VampireKnife"] = Null THEN s
    ELSE FireKnives(s, kVampireKnifeVolley,
                    Get(s.m_weaponDamage, s.m_weaponId["VampireKnife"], 0))

FireShurikenFromCurrent(s) ==
    SpawnProjectile(s, "Shuriken", s.m_characterId["Shuriken"],
                    kShurikenDamage, kProjectileSpeed)

FireExplosionProjectileFromCurrent(s) ==
    SpawnProjectile(s, "Explosion", s.m_characterId["Explosion_Staff"],
                    s.m_explosionDamage, kExplosionProjectileSpeed)

HandlesLeft(s) == MaxProj - (s.nextProj - 1)

AutoFireAll(s, t, fires) ==
    LET s1 == IF t - s.m_lastVampireKnifeTime > kFireIntervalKnife
                 /\ s.m_weaponId["VampireKnife"] /= Null
              THEN [(IF "VampireKnife" \in fires
                     THEN FireVampireKnifeProjectile(s) ELSE s)
                        EXCEPT !.m_lastVampireKnifeTime = t]
              ELSE s
        s2 == IF t - s1.m_lastShurikenTime > kFireIntervalShuriken
                 /\ s1.m_weaponId["Shuriken"] /= Null
              THEN [(IF "Shuriken" \in fires
                     THEN FireShurikenFromCurrent(s1) ELSE s1)
                        EXCEPT !.m_lastShurikenTime = t]
              ELSE s1
    IN IF t - s2.m_lastExplosionTime > kFireIntervalExplosion
          /\ s2.m_weaponId["Explosion_Staff"] /= Null
       THEN [(IF "Explosion" \in fires
              THEN FireExplosionProjectileFromCurrent(s2) ELSE s2)
                 EXCEPT !.m_lastExplosionTime = t]
       ELSE s2

kTurretFireInterval == 4

kTurretProjectileSpeed == 2

FireTurretProjectile(s, turretId) ==
    IF turretId = Null THEN s
    ELSE SpawnProjectile(s, "Turret", turretId, 1, kTurretProjectileSpeed)

RECURSIVE UpdateTurretsFor(_, _, _, _)
UpdateTurretsFor(s, t, turrets, fires) ==
    IF turrets = {} THEN s
    ELSE LET x == CHOOSE y \in turrets : \A z \in turrets : y <= z
             s1 == IF ~BodyValid(s, x)
                   THEN [s EXCEPT !.m_turretIds = @ \ {x},
                                  !.m_turretLastShot = Erase(@, x),
                                  !.m_turretOwner = Erase(@, x)]
                   ELSE IF t - Get(s.m_turretLastShot, x, 0)
                               > kTurretFireInterval
                   THEN [(IF "Turret" \in fires
                          THEN FireTurretProjectile(s, x) ELSE s)
                             EXCEPT !.m_turretLastShot = Put(@, x, t)]
                   ELSE [s EXCEPT !.m_turretLastShot =
                                      Put(@, x, Get(@, x, 0))]
         IN UpdateTurretsFor(s1, t, turrets \ {x}, fires)

UpdateTurrets(s, t, fires) == UpdateTurretsFor(s, t, s.m_turretIds, fires)

---------------------------------------------------------------------------
(* The state machine: Step() and the engine events it consumes *)

Rosters == {<<"Spear", "Scythe">>, <<"Shuriken", "Sword">>,
            <<"Explosion_Staff", "Katana">>, <<"VampireKnife", "Unarmed">>}

InitHPs == (1..MaxHP) \cup {kInitialHP}

Dts == {2, 21}

NoEvent == [type |-> "none", attacker |-> Null, victim |-> Null,
            applied |-> FALSE, rehit |-> FALSE, rehitET |-> FALSE,
            arg |-> 0, before |-> 0, near |-> {}, ticks |-> 0]

NoHistory == [hit |-> {}, hitET |-> {}, woke |-> Null, explosive |-> {},
              destroyed |-> {}, flipped |-> EmptyMap]

Track(s, h) ==
    [h EXCEPT !.hit = {pk \in @ : Get(s.m_pairOverlap, pk, 0) > 0},
              !.hitET = {pk \in @ : pk[1] \in s.valid /\ pk[2] \in s.valid},
              !.explosive = @ \cap s.valid,
              !.destroyed = @ \cup (st.valid \ s.valid)]

LoweredHP(s1, s2, c) ==
    Has(s1.m_characterHP, c) /\ Has(s2.m_characterHP, c)
    /\ s2.m_characterHP[c] < s1.m_characterHP[c]

AttackerShapes(s) ==
    UNION {HitShapes(b) : b \in s.valid}

SensorPairs(s) ==
    {<<a, SkinShape(v)>> : a \in AttackerShapes(s),
                           v \in CharIds \cap s.valid}

LowerFixtures(a) == {<<a[1], i>> : i \in 1..(a[2] - 1)}

HigherFixtures(a) == {<<a[1], i>> : i \in (a[2] + 1)..NumFixtures}

CanBegin(s, pr) ==
    /\ pr \notin s.touching
    /\ pr[1][1] /= pr[2][1]
    /\ \A a \in LowerFixtures(pr[1]) : <<a, pr[2]>> \in s.touching

CanEnd(s, pr) ==
    /\ pr \in s.touching
    /\ pr \notin s.begun
    /\ \A a \in HigherFixtures(pr[1]) : <<a, pr[2]>> \notin s.touching

Init ==
    /\ \E r \in Rosters : \E hp1 \in InitHPs : \E hp2 \in InitHPs :
           st = SpawnSelectedCharacters(r[1], r[2], hp1, hp2)
    /\ now = 0
    /\ pc = "Begin"
    /\ evt = NoEvent
    /\ left = MaxEvents
    /\ hist = NoHistory

BeginStep ==
    /\ pc = "Begin"
    /\ st.m_stepCounter < MaxSteps
    /\ \E dt \in Dts : now' = now + dt
    /\ st' = [st EXCEPT !.m_stepCounter = @ + 1, !.begun = {}]
    /\ hist' = [hist EXCEPT !.woke = Null]
    /\ pc' = "WallContacts"
    /\ evt' = NoEvent
    /\ UNCHANGED left

ContactShapes(s, e, type) ==
    {sh \in UNION {HitShapes(p) : p \in ProjIds \cap s.valid} :
        \/ sh[2] = 1
        \/ e.type = type /\ e.attacker = sh[1] /\ e.arg = sh[2] - 1}

ContactEvent(s, type, sh) ==
    [NoEvent EXCEPT !.type = type,
                    !.attacker = sh[1],
                    !.arg = sh[2],
                    !.applied = InProjectileSet(s, sh[1], "Shuriken"),
                    !.before = Get(s.m_shurikenReboundsLeft, sh[1], 0)]

WallContactEvent ==
    /\ pc = "WallContacts"
    /\ left > 0
    /\ \E sh \in ContactShapes(st, evt, "wall") :
           /\ st' = WallContact(st, now, sh[1])
           /\ evt' = ContactEvent(st, "wall", sh)
    /\ left' = left - 1
    /\ UNCHANGED <<now, pc>>
    /\ hist' = Track(st', hist)

WallContactsDone ==
    /\ pc = "WallContacts"
    /\ pc' = "WeaponContacts"
    /\ evt' = NoEvent
    /\ UNCHANGED <<st, now, left>>
    /\ hist' = Track(st', hist)

WeaponContactEvent ==
    /\ pc = "WeaponContacts"
    /\ left > 0
    /\ \E sh \in ContactShapes(st, evt, "weapon") :
           /\ st' = WeaponContact(st, now, sh[1])
           /\ evt' = ContactEvent(st, "weapon", sh)
    /\ left' = left - 1
    /\ UNCHANGED <<now, pc>>
    /\ hist' = Track(st', hist)

WeaponContactsDone ==
    /\ pc = "WeaponContacts"
    /\ pc' = "HitBegin"
    /\ evt' = NoEvent
    /\ UNCHANGED <<st, now, left>>
    /\ hist' = Track(st', hist)

HitBeginEvent ==
    /\ pc = "HitBegin"
    /\ left > 0
    /\ \E pr \in {x \in SensorPairs(st) : CanBegin(st, x)} :
           LET a == pr[1]
               skin == pr[2]
               pk == <<skin[1], a[1]>>
               s0 == [st EXCEPT !.touching = @ \cup {pr},
                                !.begun = @ \cup {pr}]
               s1 == BeginTouch(s0, now, a, skin)
               hits == LoweredHP(st, s1, skin[1])
           IN /\ st' = s1
              /\ TurretHandlesLeft(st') >= 0
              /\ evt' = [type |-> "begin", attacker |-> a[1],
                         victim |-> skin[1], applied |-> hits,
                         rehit |-> hits /\ pk \in hist.hit,
                         rehitET |-> hits /\ pk \in hist.hitET,
                         arg |-> ContactDamage(st, a[1]),
                         before |-> Get(st.m_characterHP, skin[1], 0),
                         near |-> {}, ticks |-> 0]
              /\ hist' = Track(s1, [hist EXCEPT
                                      !.hit = IF hits THEN @ \cup {pk} ELSE @,
                                      !.hitET = IF hits THEN @ \cup {pk}
                                                ELSE @])
    /\ left' = left - 1
    /\ UNCHANGED <<now, pc>>

KillZoneEvent ==
    /\ pc = "HitBegin"
    /\ left > 0
    /\ \E p \in ProjIds \cap st.valid :
           /\ st' = KillZoneTouch(st, now, p)
           /\ evt' = [NoEvent EXCEPT !.type = "killzone", !.attacker = p]
    /\ left' = left - 1
    /\ UNCHANGED <<now, pc>>
    /\ hist' = Track(st', hist)

HitBeginDone ==
    /\ pc = "HitBegin"
    /\ pc' = "HitEnd"
    /\ evt' = NoEvent
    /\ UNCHANGED <<st, now, left>>
    /\ hist' = Track(st', hist)

HitEndEvent ==
    /\ pc = "HitEnd"
    /\ left > 0
    /\ \E pr \in {x \in st.touching : CanEnd(st, x)} :
           /\ st' = EndTouch([st EXCEPT !.touching = @ \ {pr}], pr[1], pr[2])
           /\ evt' = [NoEvent EXCEPT !.type = "end", !.attacker = pr[1][1],
                                     !.victim = pr[2][1],
                                     !.arg = Get(st.m_pairOverlap,
                                                 <<pr[2][1], pr[1][1]>>, 0)]
           /\ hist' = Track(st', [hist EXCEPT
                                    !.hitET =
                                        IF Get(st'.m_pairOverlap,
                                               <<pr[2][1], pr[1][1]>>, 0) = 0
                                        THEN @ \ {<<pr[2][1], pr[1][1]>>}
                                        ELSE @])
    /\ left' = left - 1
    /\ UNCHANGED <<now, pc>>

(* The batches were collected by the previous world step: an event may     *)
(* name a shape that has been destroyed since.  Each handler meets such an *)
(* event in its own loop.                                                  *)

StaleContactShapes(h) == UNION {HitShapes(b) : b \in h.destroyed}

StaleSensorPairs(s, h) ==
    {<<a, SkinShape(v)>> :
        a \in UNION {HitShapes(b) : b \in s.valid \cup h.destroyed},
        v \in CharIds \cap (s.valid \cup h.destroyed)}
    \ SensorPairs(s)

StaleEvent ==
    /\ pc \in {"WallContacts", "WeaponContacts", "HitBegin", "HitEnd"}
    /\ left > 0
    /\ \/ /\ pc = "WallContacts"
          /\ \E sh \in StaleContactShapes(hist) :
                 /\ st' = WallContact(st, now, sh[1])
                 /\ evt' = [NoEvent EXCEPT !.type = "stale",
                                           !.attacker = sh[1], !.arg = 1]
       \/ /\ pc = "WeaponContacts"
          /\ \E sh \in StaleContactShapes(hist) :
                 /\ st' = WeaponContact(st, now, sh[1])
                 /\ evt' = [NoEvent EXCEPT !.type = "stale",
                                           !.attacker = sh[1], !.arg = 2]
       \/ /\ pc = "HitBegin"
          /\ \E pr \in StaleSensorPairs(st, hist) :
                 /\ st' = BeginTouch(st, now, pr[1], pr[2])
                 /\ evt' = [NoEvent EXCEPT !.type = "stale",
                                           !.attacker = pr[1][1],
                                           !.victim = pr[2][1], !.arg = 3]
       \/ /\ pc = "HitEnd"
          /\ \E pr \in StaleSensorPairs(st, hist) :
                 /\ st' = EndTouch(st, pr[1], pr[2])
                 /\ evt' = [NoEvent EXCEPT !.type = "stale",
                                           !.attacker = pr[1][1],
                                           !.victim = pr[2][1], !.arg = 4]
    /\ left' = left - 1
    /\ UNCHANGED <<now, pc>>
    /\ hist' = Track(st', hist)

HitEndDone ==
    /\ pc = "HitEnd"
    /\ pc' = "Flush1"
    /\ evt' = NoEvent
    /\ UNCHANGED <<st, now, left>>
    /\ hist' = Track(st', hist)

RECURSIVE SumHP(_, _)
SumHP(hp, cs) ==
    IF cs = {} THEN 0
    ELSE LET c == CHOOSE x \in cs : TRUE
         IN hp[c] + SumHP(hp, cs \ {c})

TotalHP(s) == SumHP(s.m_characterHP, DOMAIN s.m_characterHP)

DueExplosions(s, t) ==
    {p \in DueProjectiles(s, t) :
        InProjectileSet(s, p, "Explosion") /\ BodyValid(s, p)}

NearChoices(s, t) ==
    IF DueExplosions(s, t) = {} THEN {{}}
    ELSE SUBSET {c \in CharIds : BodyValid(s, c)}

Flush(from, to) ==
    /\ pc = from
    /\ \E near \in NearChoices(st, now) :
           /\ st' = ProcessProjectileDestructions(st, now, near)
           /\ evt' = [NoEvent EXCEPT
                        !.type = "flush",
                        !.near = near,
                        !.arg = Cardinality(DueExplosions(st, now)),
                        !.before = TotalHP(st)]
    /\ pc' = to
    /\ UNCHANGED <<now, left>>
    /\ hist' = Track(st', hist)

Deaths(from, to) ==
    /\ pc = from
    /\ st' = ProcessPendingCharacterDeaths(st, now)
    /\ pc' = to
    /\ evt' = NoEvent
    /\ UNCHANGED <<now, left>>
    /\ hist' = Track(st', hist)

Freezes(from, to) ==
    /\ pc = from
    /\ st' = UpdateFreezes(st, now)
    /\ pc' = to
    /\ evt' = NoEvent
    /\ UNCHANGED <<now, left>>
    /\ hist' = Track(st', hist)

Flush1 == Flush("Flush1", "Deaths1")

Deaths1 == Deaths("Deaths1", "Freezes1")

Freezes1 == Freezes("Freezes1", "AutoFire")

AutoFire ==
    /\ pc = "AutoFire"
    /\ \E fires \in SUBSET {"VampireKnife", "Shuriken", "Explosion",
                             "Turret"} :
           LET s1 == UpdateTurrets(AutoFireAll(st, now, fires), now, fires)
           IN /\ HandlesLeft(s1) >= 0
              /\ st' = s1
    /\ pc' = "Physics"
    /\ evt' = NoEvent
    /\ UNCHANGED <<now, left>>
    /\ hist' = Track(st', [hist EXCEPT
                             !.explosive =
                                 @ \cup {p \in DOMAIN st'.m_projectiles
                                                \ DOMAIN st.m_projectiles :
                                            st'.m_projectiles[p] =
                                                "Explosion"}])

b2World_Step(s, b) ==
    IF b = Null THEN s
    ELSE [s EXCEPT !.linVel[b] = 3, !.angVel[b] = 1, !.awake = @ \cup {b}]

DoPhysicsStep ==
    /\ pc = "Physics"
    /\ \E b \in {Null} \cup {x \in st.valid : IsBodyCurrentlyFrozen(st, x)} :
           /\ st' = b2World_Step(st, b)
           /\ hist' = [hist EXCEPT !.woke = b]
    /\ pc' = "MinVel"
    /\ evt' = NoEvent
    /\ UNCHANGED <<now, left>>

MaintainMinVelocity ==
    /\ pc = "MinVel"
    /\ st' = MaintainMinVelocityForAll(st)
    /\ pc' = "Animate"
    /\ evt' = NoEvent
    /\ UNCHANGED <<now, left>>
    /\ hist' = Track(st', hist)

AnimateAndCompute ==
    /\ pc = "Animate"
    /\ st' = UpdateUnarmedSpeedRampAndDamage(AnimateExplosions(st, now))
    /\ pc' = "Statuses"
    /\ evt' = NoEvent
    /\ UNCHANGED <<now, left>>
    /\ hist' = Track(st', hist)

ApplyStatuses ==
    /\ pc = "Statuses"
    /\ st' = UpdateSlashes(UpdatePoison(st, now), now)
    /\ pc' = "Flush2"
    /\ evt' = NoEvent
    /\ UNCHANGED <<now, left>>
    /\ hist' = Track(st', hist)

Flush2 == Flush("Flush2", "Deaths2")

Deaths2 == Deaths("Deaths2", "Freezes2")

Freezes2 == Freezes("Freezes2", "Begin")

Next ==
    \/ BeginStep
    \/ WallContactEvent \/ WallContactsDone
    \/ WeaponContactEvent \/ WeaponContactsDone
    \/ HitBeginEvent \/ KillZoneEvent \/ HitBeginDone
    \/ HitEndEvent \/ HitEndDone
    \/ StaleEvent
    \/ Flush1 \/ Deaths1 \/ Freezes1
    \/ AutoFire
    \/ DoPhysicsStep \/ MaintainMinVelocity \/ AnimateAndCompute
    \/ ApplyStatuses
    \/ Flush2 \/ Deaths2 \/ Freezes2

Spec == Init /\ [][Next]_vars

(* The same Step() for a match that the wrench takes part in: its hits     *)
(* summon turrets, which fire projectiles of their own.                    *)

WrenchRosters == {<<"Wrench", "Sword">>, <<"Unarmed", "Wrench">>}

InitWrench ==
    /\ \E r \in WrenchRosters : \E hp1 \in InitHPs : \E hp2 \in InitHPs :
           st = SpawnSelectedCharacters(r[1], r[2], hp1, hp2)
    /\ now = 0
    /\ pc = "Begin"
    /\ evt = NoEvent
    /\ left = MaxEvents
    /\ hist = NoHistory

SpecWrench == InitWrench /\ [][Next]_vars

---------------------------------------------------------------------------
(* FreezeBodyAndJoint and UpdateFreezes on their own: the callers of Step() *)
(* reach the branch for an already-frozen body only through an explosion   *)
(* that finds a weapon frozen and its owner not, so the calls are issued   *)
(* here directly, on any live body and with either duration.               *)

FreezeDurations == {kProjectileHitFreezeDefault, kHitFreezeDuration}

EndTimeOf(s, b) ==
    IF IsBodyCurrentlyFrozen(s, b)
    THEN s.m_activeFreezes[CHOOSE i \in FreezeIndex(s, b) : TRUE].endTime
    ELSE 0

InitFreeze ==
    /\ \E r \in Rosters :
           st = SpawnSelectedCharacters(r[1], r[2], kInitialHP, kInitialHP)
    /\ now = 0
    /\ pc = "Freeze"
    /\ evt = NoEvent
    /\ left = MaxEvents
    /\ hist = NoHistory

FreezeCall ==
    /\ pc = "Freeze"
    /\ left > 0
    /\ \E body \in st.valid : \E duration \in FreezeDurations :
           /\ st' = FreezeBodyAndJoint(st, now, body,
                                       Get(st.m_weaponToJoint, body, Null),
                                       duration)
           /\ evt' = [NoEvent EXCEPT !.type = "freeze",
                                     !.attacker = body,
                                     !.applied = IsBodyCurrentlyFrozen(st, body),
                                     !.arg = duration,
                                     !.before = EndTimeOf(st, body)]
    /\ left' = left - 1
    /\ UNCHANGED <<now, pc, hist>>

FreezeFrame ==
    /\ pc = "Freeze"
    /\ st.m_stepCounter < MaxSteps
    /\ \E dt \in Dts :
           /\ now' = now + dt
           /\ st' = UpdateFreezes([st EXCEPT !.m_stepCounter = @ + 1], now')
    /\ evt' = NoEvent
    /\ UNCHANGED <<pc, left, hist>>

NextFreeze == FreezeCall \/ FreezeFrame

SpecFreeze == InitFreeze /\ [][NextFreeze]_vars

---------------------------------------------------------------------------
(* AddPoison and UpdatePoison on their own: a character receives an        *)
(* accumulator of k ticks at time 0, and UpdatePoison runs in frames that  *)
(* come 0 s, 0.5 s, 1 s or 2 s after the previous one.                     *)

PoisonDts == {0, 10, 20, 40}

InitPoison ==
    /\ \E r \in Rosters : \E i \in 1..2 : \E hp \in InitHPs :
        \E k \in 1..MaxTicks :
           /\ st = AddPoison(
                       SpawnSelectedCharacters(
                           r[1], r[2],
                           IF i = 1 THEN hp ELSE kInitialHP,
                           IF i = 2 THEN hp ELSE kInitialHP),
                       CharId(r[i]), k, 0)
           /\ evt = [NoEvent EXCEPT !.type = "poison",
                                    !.victim = CharId(r[i]),
                                    !.arg = k,
                                    !.before = hp]
    /\ now = 0
    /\ pc = "Poison"
    /\ left = MaxEvents
    /\ hist = NoHistory

PoisonFrame ==
    /\ pc = "Poison"
    /\ st.m_stepCounter < MaxFrames
    /\ \E dt \in PoisonDts :
           /\ now' = now + dt
           /\ st' = UpdatePoison([st EXCEPT !.m_stepCounter = @ + 1], now')
    /\ evt' = [evt EXCEPT
                 !.applied = LoweredHP(st, st', evt.victim),
                 !.ticks = IF LoweredHP(st, st', evt.victim)
                           THEN @ + 1 ELSE @]
    /\ UNCHANGED <<pc, left, hist>>

SpecPoison == InitPoison /\ [][PoisonFrame]_vars

---------------------------------------------------------------------------
(* The sensor handlers of ProcessHitSensors on their own: begin-touch and   *)
(* end-touch events of the weapons' fixtures on the skins, over enough      *)
(* frames and events for an overlap episode to start inside the cooldown of *)
(* the previous one and to outlast it.                                      *)

MaxEpisodeEvents == 4

InitEpisode ==
    /\ \E r \in Rosters :
           st = SpawnSelectedCharacters(r[1], r[2], kInitialHP, kInitialHP)
    /\ now = 0
    /\ pc = "Episode"
    /\ evt = NoEvent
    /\ left = MaxEpisodeEvents
    /\ hist = NoHistory

EpisodeBegin ==
    /\ pc = "Episode"
    /\ left > 0
    /\ \E pr \in {x \in SensorPairs(st) : CanBegin(st, x)} :
           LET pk == <<pr[2][1], pr[1][1]>>
               s1 == BeginTouch([st EXCEPT !.touching = @ \cup {pr},
                                           !.begun = @ \cup {pr}],
                                now, pr[1], pr[2])
               hits == LoweredHP(st, s1, pr[2][1])
           IN /\ st' = s1
              /\ evt' = [NoEvent EXCEPT
                           !.type = "begin",
                           !.attacker = pr[1][1],
                           !.victim = pr[2][1],
                           !.applied = hits,
                           !.rehit = hits /\ pk \in hist.hit,
                           !.arg = Get(st.m_pairOverlap, pk, 0),
                           !.before = Get(st.m_damageCooldown, pk, 0)]
              /\ hist' = Track(s1, [hist EXCEPT
                                      !.hit = IF hits THEN @ \cup {pk}
                                              ELSE @])
    /\ left' = left - 1
    /\ UNCHANGED <<now, pc>>

EpisodeEnd ==
    /\ pc = "Episode"
    /\ left > 0
    /\ \E pr \in {x \in st.touching : CanEnd(st, x)} :
           /\ st' = EndTouch([st EXCEPT !.touching = @ \ {pr}], pr[1], pr[2])
           /\ evt' = [NoEvent EXCEPT !.type = "end", !.attacker = pr[1][1],
                                     !.victim = pr[2][1]]
    /\ hist' = Track(st', hist)
    /\ left' = left - 1
    /\ UNCHANGED <<now, pc>>

EpisodeFrame ==
    /\ pc = "Episode"
    /\ st.m_stepCounter < MaxSteps
    /\ \E dt \in Dts : now' = now + dt
    /\ st' = [st EXCEPT !.m_stepCounter = @ + 1, !.begun = {}]
    /\ evt' = NoEvent
    /\ UNCHANGED <<pc, left, hist>>

NextEpisode == EpisodeBegin \/ EpisodeEnd \/ EpisodeFrame

SpecEpisode == InitEpisode /\ [][NextEpisode]_vars

---------------------------------------------------------------------------
(* UpdateFreezes on records of every kind: Step() erases the records of a   *)
(* body before it destroys it, so a record with an invalid body is met only *)
(* when the body is lost behind the sample's back; here a frozen body may   *)
(* be lost that way.                                                        *)

ExpiredMotorRecords(s, t) ==
    {i \in 1..Len(s.m_activeFreezes) :
        LET f == s.m_activeFreezes[i]
        IN BodyValid(s, f.body) /\ t >= f.endTime /\ f.hadMotor}

OrphanRecords(s) ==
    {i \in 1..Len(s.m_activeFreezes) :
        ~BodyValid(s, s.m_activeFreezes[i].body)}

ThawSpeeds == {1, kResumeLinClamp + 1}

ThawSpins == {0 - (kResumeAngClamp + 1), 1, kResumeAngClamp + 1}

InitThaw ==
    /\ \E r \in Rosters : \E v \in ThawSpeeds : \E w \in ThawSpins :
           LET s == SpawnSelectedCharacters(r[1], r[2], kInitialHP,
                                            kInitialHP)
           IN st = [s EXCEPT !.linVel = [b \in DOMAIN @ |-> v],
                             !.angVel = [b \in DOMAIN @ |-> w]]
    /\ now = 0
    /\ pc = "Freeze"
    /\ evt = NoEvent
    /\ left = MaxEvents
    /\ hist = NoHistory

FrozenBodyLost ==
    /\ pc = "Freeze"
    /\ OrphanRecords(st) = {}
    /\ \E i \in 1..Len(st.m_activeFreezes) :
           /\ st' = b2DestroyBody(st, st.m_activeFreezes[i].body)
           /\ evt' = [NoEvent EXCEPT !.type = "lost",
                                     !.attacker = st.m_activeFreezes[i].body]
    /\ UNCHANGED <<now, pc, left, hist>>

ThawFrame ==
    /\ pc = "Freeze"
    /\ st.m_stepCounter < MaxSteps
    /\ \E dt \in Dts :
           /\ now' = now + dt
           /\ st' = UpdateFreezes([st EXCEPT !.m_stepCounter = @ + 1], now')
           /\ evt' = [NoEvent EXCEPT
                        !.type = "thaw",
                        !.arg = Cardinality(ExpiredMotorRecords(st, now')),
                        !.before = Cardinality(OrphanRecords(st))]
    /\ UNCHANGED <<pc, left, hist>>

SpecThaw == InitThaw /\ [][FreezeCall \/ FrozenBodyLost \/ ThawFrame]_vars

---------------------------------------------------------------------------
(* ProcessPendingCharacterDeaths on its own.  In Step() every damage path   *)
(* asks for a kill only when it takes the HP from above 0 to 0, so the      *)
(* queue never names a character twice there; here the requests are issued *)
(* directly, any number of times for the same character.                    *)

MaxKillRequests == 3

InitDeaths ==
    /\ \E r \in Rosters \cup WrenchRosters :
           st = SpawnSelectedCharacters(r[1], r[2], kInitialHP, kInitialHP)
    /\ now = 0
    /\ pc = "DeathPass"
    /\ evt = NoEvent
    /\ left = MaxKillRequests
    /\ hist = NoHistory

KillRequest ==
    /\ pc = "DeathPass"
    /\ left > 0
    /\ \E c \in CharIds \cap st.valid :
           /\ st' = RequestKillCharacter(
                        [st EXCEPT !.m_characterHP[c] = 0], c)
           /\ evt' = [NoEvent EXCEPT !.type = "kill", !.victim = c]
    /\ left' = left - 1
    /\ UNCHANGED <<now, pc, hist>>

DeathPass ==
    /\ pc = "DeathPass"
    /\ st' = ProcessPendingCharacterDeaths(st, now)
    /\ evt' = [NoEvent EXCEPT !.type = "deaths",
                              !.arg = Len(st.m_charactersToKill)]
    /\ hist' = Track(st', hist)
    /\ UNCHANGED <<now, pc, left>>

SpecDeaths == InitDeaths /\ [][KillRequest \/ DeathPass]_vars

---------------------------------------------------------------------------
(* BlockBreakerVS: the auto-recovery at the head of its Step().  Here st   *)
(* holds the fields of the BlockBreakerVS object and the set of valid body *)
(* handles of its world; now counts the steps taken and left the handle    *)
(* invalidations the world may still suffer from outside the sample.       *)

MaxBreakerSteps == 2
MaxBarLife == 2
MaxInvalidations == 2

Arenas == 1..2

kBars == 3

Bars == 1..kBars

m_blockLivesDefault == [bi \in Bars |-> MaxBarLife]

IsValidBody(s, id) == id /= Null /\ id \in s.world

BreakerCreateBody(s) ==
    [s EXCEPT !.world = @ \cup {s.nextBody}, !.nextBody = @ + 1]

(* b2DestroyBody; destroyedInvalid records a call on a handle that is not  *)
(* valid, which is what a second destruction of a body would be, handles   *)
(* never becoming valid again.                                             *)
BreakerDestroyBody(s, id) ==
    [s EXCEPT !.world = @ \ {id},
              !.destroyedInvalid = @ \cup ({id} \ s.world)]

BuildBar(s, ai, bi) ==
    [BreakerCreateBody(s) EXCEPT !.bars[ai][bi] = s.nextBody]

BuildArena(s, ai) ==
    LET s0 == [s EXCEPT !.lives[ai] = m_blockLivesDefault,
                        !.pendingKill[ai] = [bi \in Bars |-> FALSE]]
        s1 == IF IsValidBody(s0, s0.borderBody[ai])
              THEN BreakerDestroyBody(s0, s0.borderBody[ai])
              ELSE s0
        s2 == [BreakerCreateBody(s1) EXCEPT !.borderBody[ai] = s1.nextBody]
    IN BuildBar(BuildBar(BuildBar(s2, ai, 1), ai, 2), ai, 3)

BuildArenas(s) == BuildArena(BuildArena(s, 1), 2)

ResetTeamStats(s) == [s EXCEPT !.m_team = [t \in Arenas |-> 0]]

SpawnParticipants(s) ==
    LET s1 == BreakerCreateBody(ResetTeamStats(s))
        s2 == BreakerCreateBody(s1)
    IN [s2 EXCEPT !.m_topBalls = @ \cup {s1.nextBody - 1},
                  !.m_botBalls = @ \cup {s2.nextBody - 1}]

RECURSIVE DestroyTimedFrom(_, _)
DestroyTimedFrom(s, i) ==
    IF i > Len(s.m_timedBodies) THEN s
    ELSE DestroyTimedFrom(
             IF IsValidBody(s, s.m_timedBodies[i].id)
             THEN BreakerDestroyBody(s, s.m_timedBodies[i].id)
             ELSE s,
             i + 1)

DestroyTimedBodies(s) ==
    [DestroyTimedFrom(s, 1) EXCEPT !.m_timedBodies = <<>>]

WorldResetDetectedOnNullBar(s) ==
    \/ \E ai \in Arenas : ~IsValidBody(s, s.borderBody[ai])
    \/ \E ai \in Arenas : \E bi \in Bars : ~IsValidBody(s, s.bars[ai][bi])

WorldResetDetected(s) ==
    \/ \E ai \in Arenas : ~IsValidBody(s, s.borderBody[ai])
    \/ \E ai \in Arenas : \E bi \in Bars :
           s.bars[ai][bi] /= Null /\ ~IsValidBody(s, s.bars[ai][bi])

RecoverWorldReset(s) ==
    LET s1 == [s EXCEPT
                 !.borderBody = [ai \in Arenas |-> Null],
                 !.bars = [ai \in Arenas |-> [bi \in Bars |-> Null]],
                 !.pendingKill = [ai \in Arenas |-> [bi \in Bars |-> FALSE]],
                 !.m_topBalls = {},
                 !.m_botBalls = {}]
        s2 == [DestroyTimedBodies(s1) EXCEPT !.m_drillContacts = {},
                                             !.m_hitFx = 0,
                                             !.m_pendingGrow = 0]
    IN SpawnParticipants(BuildArenas(ResetTeamStats(s2)))

RECURSIVE UpdateTimedFrom(_, _)
UpdateTimedFrom(s, i) ==
    IF i > Len(s.m_timedBodies) THEN s
    ELSE LET tb == s.m_timedBodies[i]
         IN IF tb.ttl <= 0 \/ ~IsValidBody(s, tb.id)
            THEN UpdateTimedFrom(
                     [(IF IsValidBody(s, tb.id)
                       THEN BreakerDestroyBody(s, tb.id) ELSE s)
                          EXCEPT !.m_timedBodies =
                                     SubSeq(@, 1, i - 1)
                                     \o SubSeq(@, i + 1, Len(@))],
                     i)
            ELSE UpdateTimedFrom(s, i + 1)

UpdateTimedBodiesWithoutTick(s) == UpdateTimedFrom(s, 1)

UpdateTimedBodies(s) ==
    UpdateTimedFrom(
        [s EXCEPT !.m_timedBodies =
                      [i \in 1..Len(@) |-> [@[i] EXCEPT !.ttl = @ - 1]]],
        1)

ApplyDamageToBar(s, ai, bi, team, amount) ==
    IF amount <= 0 THEN s
    ELSE IF s.pendingKill[ai][bi] \/ ~IsValidBody(s, s.bars[ai][bi]) THEN s
    ELSE LET v == s.lives[ai][bi]
             applied == IF v > 0 THEN Min(amount, v) ELSE 0
         IN [s EXCEPT !.lives[ai][bi] = v - applied,
                      !.m_team[team] = @ + applied,
                      !.m_hitFx = 1,
                      !.pendingKill[ai][bi] = (v - applied <= 0)]

RECURSIVE PendingBarDestroyFrom(_, _)
PendingBarDestroyFrom(s, n) ==
    IF n > 2 * kBars THEN s
    ELSE LET ai == 1 + ((n - 1) \div kBars)
             bi == 1 + ((n - 1) % kBars)
         IN PendingBarDestroyFrom(
                IF s.pendingKill[ai][bi] /\ IsValidBody(s, s.bars[ai][bi])
                THEN [BreakerDestroyBody(s, s.bars[ai][bi]) EXCEPT
                        !.bars[ai][bi] = Null,
                        !.pendingKill[ai][bi] = FALSE]
                ELSE s,
                n + 1)

ProcessPendingBarDestroy(s) ==
    LET s1 == PendingBarDestroyFrom(s, 1)
    IN [s1 EXCEPT !.m_drillContacts = {b \in @ : IsValidBody(s1, b)}]

SpawnTimedBody(s, ttl) ==
    [BreakerCreateBody(s) EXCEPT
       !.m_timedBodies = Append(@, [id |-> s.nextBody, ttl |-> ttl])]

BreakerGameplay(s, hit, spawn, drill) ==
    LET s1 == UpdateTimedBodies(s)
        s2 == IF hit[1] = Null THEN s1
              ELSE ApplyDamageToBar(s1, hit[1], hit[2], hit[1], hit[3])
        s3 == IF drill[1] = Null \/ ~IsValidBody(s2, s2.bars[drill[1]][drill[2]])
              THEN s2
              ELSE [s2 EXCEPT !.m_drillContacts =
                                  @ \cup {s2.bars[drill[1]][drill[2]]},
                              !.m_pendingGrow = 1]
        s4 == ProcessPendingBarDestroy(s3)
        s5 == IF spawn /\ Len(s4.m_timedBodies) = 0
              THEN SpawnTimedBody(s4, 1) ELSE s4
    IN [s5 EXCEPT !.m_pendingGrow = 0]

BarChoices == {<<Null, Null, Null>>} \cup (Arenas \X Bars \X (1..MaxBarLife))

DrillChoices == {<<Null, Null>>} \cup (Arenas \X Bars)

InitBreaker ==
    /\ st = SpawnParticipants(BuildArenas(
                [world |-> {}, nextBody |-> 1,
                 borderBody |-> [ai \in Arenas |-> Null],
                 bars |-> [ai \in Arenas |-> [bi \in Bars |-> Null]],
                 pendingKill |-> [ai \in Arenas |-> [bi \in Bars |-> FALSE]],
                 lives |-> [ai \in Arenas |-> m_blockLivesDefault],
                 m_topBalls |-> {}, m_botBalls |-> {},
                 m_timedBodies |-> <<>>, m_drillContacts |-> {},
                 m_hitFx |-> 0, m_pendingGrow |-> 0,
                 m_team |-> [t \in Arenas |-> 0],
                 destroyedInvalid |-> {}]))
    /\ now = 0
    /\ pc = "Breaker"
    /\ evt = NoEvent
    /\ left = MaxInvalidations
    /\ hist = NoHistory

BreakerStep ==
    /\ pc = "Breaker"
    /\ now < MaxBreakerSteps
    /\ now' = now + 1
    /\ IF WorldResetDetected(st)
       THEN /\ st' = RecoverWorldReset(st)
            /\ evt' = [NoEvent EXCEPT
                         !.type = "step",
                         !.applied = TRUE,
                         !.arg = Cardinality(
                                     {x \in Arenas \X Bars :
                                        /\ st.bars[x[1]][x[2]] /= Null
                                        /\ st.bars[x[1]][x[2]] \notin st.world}),
                         !.before = Cardinality(
                                        {ai \in Arenas :
                                           st.borderBody[ai] \notin st.world}),
                         !.ticks = Len(st.m_timedBodies) + st.m_hitFx
                                   + Cardinality(st.m_drillContacts)]
       ELSE \E hit \in BarChoices : \E drill \in DrillChoices :
            \E spawn \in BOOLEAN :
                /\ st' = BreakerGameplay(st, hit, spawn, drill)
                /\ evt' = [NoEvent EXCEPT !.type = "step", !.applied = FALSE]
    /\ UNCHANGED <<pc, left, hist>>

BreakerInvalidate ==
    /\ pc = "Breaker"
    /\ left > 0
    /\ \E lost \in {st.world} \cup {{b} : b \in st.world} :
           st' = [st EXCEPT !.world = @ \ lost]
    /\ evt' = [NoEvent EXCEPT !.type = "invalidate"]
    /\ left' = left - 1
    /\ UNCHANGED <<now, pc, hist>>

SpecBreaker == InitBreaker /\ [][BreakerStep \/ BreakerInvalidate]_vars

---------------------------------------------------------------------------
(* BlockBreakerVS: what a bar hit makes of the ball that hit (clones,      *)
(* grenades, drills) and the life of the timed bodies.  Here st is the     *)
(* BlockBreakerVS record with, in addition, ballUser (the BallUser that    *)
(* the shape of a ball body points to), cfg (the CharacterConfig of each   *)
(* team) and the team counters hits, clones and grenades; now counts the   *)
(* bar hits handled and left the invalidations still to come.  A TTL is    *)
(* counted in steps of 1/60 s.  The speed, size, friction and gravity      *)
(* effects of a hit change the physics of the ball only and are left out.  *)

MaxBallHits == 3
MaxPerHit == 2
MaxPerBall == 2
MaxTtl == 2
MaxBallInvalidations == 1

kDrillMinTtl == 3

NoClone == [perHit |-> 0, everyN |-> 0, maxPerBall |-> 0]

NoGrenade == [base |-> 0, incEveryN |-> 0, ttl |-> 0]

NoDrill == [enabled |-> FALSE, perHit |-> 0, ttl |-> 0]

CloneConfigs ==
    {c \in [perHit : 0..MaxPerHit, everyN : {0, 2},
            maxPerBall : 0..MaxPerBall] :
        /\ c.perHit > 0 => c.everyN = 0
        /\ (c.perHit = 0 /\ c.everyN = 0) => c.maxPerBall = 0}

MakeMultiplier(c) == [clone |-> c, grenade |-> NoGrenade, drill |-> NoDrill]

MakeCloudy(ttl) ==
    [clone |-> NoClone,
     grenade |-> [base |-> 1, incEveryN |-> 3, ttl |-> ttl],
     drill |-> NoDrill]

MakeDrilley(ttl) ==
    [clone |-> NoClone, grenade |-> NoGrenade,
     drill |-> [enabled |-> TRUE, perHit |-> 1, ttl |-> ttl]]

TopConfigs == {MakeMultiplier(c) : c \in CloneConfigs}

BotConfigs ==
    {MakeCloudy(ttl) : ttl \in 0..MaxTtl}
    \cup {MakeDrilley(ttl) : ttl \in {1, kDrillMinTtl + 1}}

NewBallUser(team, cfg) ==
    [team |-> team, cfg |-> cfg, hitCount |-> 0, clonesMade |-> 0,
     isGrenade |-> FALSE, isDrill |-> FALSE, isPrimary |-> TRUE]

BallBodies(s) == s.m_topBalls \cup s.m_botBalls

SpawnBallUsers(s) ==
    [s EXCEPT !.ballUser = [b \in BallBodies(s) |->
                               NewBallUser(IF b \in s.m_topBalls THEN 1 ELSE 2,
                                           TRUE)],
              !.hits = [t \in Arenas |-> 0],
              !.clones = [t \in Arenas |-> 0],
              !.grenades = [t \in Arenas |-> 0]]

RecoverBalls(s) == SpawnBallUsers(RecoverWorldReset(s))

SpawnCloneFromAsPrimary(s, src, srcBU) ==
    IF ~IsValidBody(s, src) THEN s
    ELSE [BreakerCreateBody(s) EXCEPT
            !.ballUser = Put(@, s.nextBody,
                             NewBallUser(srcBU.team, srcBU.cfg)),
            !.clones[srcBU.team] = @ + 1,
            !.m_topBalls = IF srcBU.team = 1 THEN @ \cup {s.nextBody} ELSE @,
            !.m_botBalls = IF srcBU.team = 1 THEN @ ELSE @ \cup {s.nextBody}]

SpawnCloneFrom(s, src, srcBU) ==
    IF ~IsValidBody(s, src) THEN s
    ELSE [BreakerCreateBody(s) EXCEPT
            !.ballUser = Put(@, s.nextBody,
                             [NewBallUser(srcBU.team, srcBU.cfg)
                                 EXCEPT !.isPrimary = FALSE]),
            !.clones[srcBU.team] = @ + 1,
            !.m_topBalls = IF srcBU.team = 1 THEN @ \cup {s.nextBody} ELSE @,
            !.m_botBalls = IF srcBU.team = 1 THEN @ ELSE @ \cup {s.nextBody}]

RECURSIVE SpawnClones(_, _, _, _)
SpawnClones(s, src, srcBU, n) ==
    IF n <= 0 THEN s
    ELSE SpawnClones(SpawnCloneFrom(s, src, srcBU), src, srcBU, n - 1)

CloneSpawnCount(C, bu) ==
    IF C.perHit > 0
    THEN IF C.maxPerBall = 0 THEN C.perHit
         ELSE Min(C.perHit, C.maxPerBall - bu.clonesMade)
    ELSE IF C.everyN > 0 /\ bu.hitCount % C.everyN = 0
         THEN IF C.maxPerBall = 0 \/ bu.clonesMade < C.maxPerBall
              THEN 1 ELSE 0
         ELSE 0

CloneOnHit(s, ball) ==
    LET bu == s.ballUser[ball]
        C == s.cfg[bu.team].clone
    IN IF /\ bu.cfg
          /\ C.perHit > 0 \/ C.everyN > 0
          /\ bu.isPrimary
          /\ C.maxPerBall = 0 \/ bu.clonesMade < C.maxPerBall
       THEN LET spawnN == CloneSpawnCount(C, bu)
            IN IF spawnN > 0 /\ IsValidBody(s, ball)
               THEN [SpawnClones(s, ball, bu, spawnN) EXCEPT
                       !.ballUser[ball].clonesMade = @ + spawnN]
               ELSE s
       ELSE s

SpawnGrenade(s, team, G) ==
    [SpawnTimedBody(s, G.ttl) EXCEPT
       !.ballUser = Put(@, s.nextBody,
                        [NewBallUser(team, FALSE) EXCEPT !.isGrenade = TRUE])]

RECURSIVE SpawnGrenades(_, _, _, _)
SpawnGrenades(s, team, G, n) ==
    IF n <= 0 THEN s
    ELSE SpawnGrenades(SpawnGrenade(s, team, G), team, G, n - 1)

SpawnGrenadeBurst(s, team, G, count) ==
    [SpawnGrenades(s, team, G, count) EXCEPT
       !.grenades[team] = @ + Max(0, count)]

SpawnDrill(s, team, D) ==
    [SpawnTimedBody(s, Max(kDrillMinTtl, D.ttl)) EXCEPT
       !.ballUser = Put(@, s.nextBody,
                        [NewBallUser(team, FALSE) EXCEPT !.isDrill = TRUE])]

RECURSIVE SpawnDrills(_, _, _, _)
SpawnDrills(s, team, D, n) ==
    IF n <= 0 THEN s
    ELSE SpawnDrills(SpawnDrill(s, team, D), team, D, n - 1)

OnBarHit(s, ai, bi, ball, damage) ==
    LET bu == s.ballUser[ball]
        C == s.cfg[bu.team]
        s1 == ApplyDamageToBar(s, ai, bi, bu.team, damage)
    IN IF bu.isGrenade \/ bu.isDrill THEN s1
       ELSE LET s2 == [s1 EXCEPT !.ballUser[ball].hitCount = @ + 1,
                                 !.hits[bu.team] = @ + 1]
                s3 == CloneOnHit(s2, ball)
                s4 == IF bu.cfg /\ C.grenade.base > 0
                      THEN SpawnGrenadeBurst(
                               s3, bu.team, C.grenade,
                               C.grenade.base
                               + (IF C.grenade.incEveryN > 0
                                  THEN (bu.hitCount + 1)
                                       \div C.grenade.incEveryN
                                  ELSE 0))
                      ELSE s3
            IN IF bu.cfg /\ C.drill.enabled /\ C.drill.perHit > 0
               THEN SpawnDrills(s4, bu.team, C.drill, C.drill.perHit)
               ELSE s4

NoBallHit == <<Null, Null, Null>>

BallHitChoices(s) ==
    {NoBallHit}
    \cup {h \in Arenas \X {1} \X (DOMAIN s.ballUser) :
            /\ IsValidBody(s, s.bars[h[1]][h[2]])
            /\ IsValidBody(s, h[3])
            /\ ~s.ballUser[h[3]].isDrill}

BallsGameplay(s, hit) ==
    ProcessPendingBarDestroy(
        IF hit = NoBallHit THEN s
        ELSE OnBarHit(s, hit[1], hit[2], hit[3], 1))

TimedIds(s) == {s.m_timedBodies[i].id : i \in 1..Len(s.m_timedBodies)}

InitBalls ==
    /\ \E top \in TopConfigs : \E bot \in BotConfigs :
           st = SpawnBallUsers(SpawnParticipants(BuildArenas(
                    [world |-> {}, nextBody |-> 1,
                     borderBody |-> [ai \in Arenas |-> Null],
                     bars |-> [ai \in Arenas |-> [bi \in Bars |-> Null]],
                     pendingKill |-> [ai \in Arenas |->
                                         [bi \in Bars |-> FALSE]],
                     lives |-> [ai \in Arenas |-> m_blockLivesDefault],
                     m_topBalls |-> {}, m_botBalls |-> {},
                     m_timedBodies |-> <<>>, m_drillContacts |-> {},
                     m_hitFx |-> 0, m_pendingGrow |-> 0,
                     m_team |-> [t \in Arenas |-> 0],
                     destroyedInvalid |-> {},
                     ballUser |-> EmptyMap,
                     cfg |-> <<top, bot>>,
                     hits |-> [t \in Arenas |-> 0],
                     clones |-> [t \in Arenas |-> 0],
                     grenades |-> [t \in Arenas |-> 0]])))
    /\ now = 0
    /\ pc = "Breaker"
    /\ evt = NoEvent
    /\ left = MaxBallInvalidations
    /\ hist = NoHistory

BallsStep ==
    /\ pc = "Breaker"
    /\ IF WorldResetDetected(st)
       THEN /\ st' = RecoverBalls(st)
            /\ now' = now
            /\ evt' = [NoEvent EXCEPT !.type = "step", !.applied = TRUE,
                                      !.before = Len(st.m_timedBodies)]
       ELSE LET s1 == UpdateTimedBodies(st)
            IN \E hit \in BallHitChoices(s1) :
                /\ hit /= NoBallHit => now < MaxBallHits
                /\ st' = BallsGameplay(s1, hit)
                /\ now' = IF hit = NoBallHit THEN now ELSE now + 1
                /\ evt' = [NoEvent EXCEPT
                             !.type = "step",
                             !.attacker = hit[3],
                             !.before = Len(st.m_timedBodies),
                             !.arg = Cardinality(
                                         (TimedIds(st) \cap st.world)
                                         \ s1.world),
                             !.ticks = Cardinality(
                                           (TimedIds(st) \ st.world)
                                           \ TimedIds(s1))]
    /\ UNCHANGED <<pc, left, hist>>

BallsInvalidate ==
    /\ pc = "Breaker"
    /\ left > 0
    /\ \E lost \in {st.world}
                   \cup {{b} : b \in (TimedIds(st) \cup BallBodies(st))
                                     \cap st.world} :
           st' = [st EXCEPT !.world = @ \ lost]
    /\ evt' = [NoEvent EXCEPT !.type = "invalidate"]
    /\ left' = left - 1
    /\ UNCHANGED <<now, pc, hist>>

SpecBalls == InitBalls /\ [][BallsStep \/ BallsInvalidate]_vars

---------------------------------------------------------------------------
(* BlockBreakerVS: the timed bodies on their own.  st holds the fields of  *)
(* the object that SpawnGrenade, SpawnDrill, UpdateTimedBodies and         *)
(* DestroyTimedBodies touch; left counts the spawns still to come and now  *)
(* the handles invalidated from outside.  Step() calls UpdateTimedBodies   *)
(* in every frame that does not recover from a world reset, hence the weak *)
(* fairness of the call.                                                   *)

MaxTimedSpawns == 3
MaxTimedInvalidations == 1

InitTimed ==
    /\ st = [world |-> {}, nextBody |-> 1, m_timedBodies |-> <<>>,
             destroyedInvalid |-> {}, ballUser |-> EmptyMap]
    /\ now = 0
    /\ pc = "Timed"
    /\ evt = NoEvent
    /\ left = MaxTimedSpawns
    /\ hist = NoHistory

TimedSpawn ==
    /\ pc = "Timed"
    /\ left > 0
    /\ \E team \in Arenas : \E c \in BotConfigs :
           st' = IF c.drill.enabled THEN SpawnDrill(st, team, c.drill)
                 ELSE SpawnGrenade(st, team, c.grenade)
    /\ evt' = [NoEvent EXCEPT !.type = "spawn", !.attacker = st.nextBody]
    /\ left' = left - 1
    /\ UNCHANGED <<now, pc, hist>>

TimedInvalidate ==
    /\ pc = "Timed"
    /\ now < MaxTimedInvalidations
    /\ \E b \in TimedIds(st) \cap st.world :
           /\ st' = [st EXCEPT !.world = @ \ {b}]
           /\ evt' = [NoEvent EXCEPT !.type = "invalidate", !.victim = b]
    /\ now' = now + 1
    /\ UNCHANGED <<pc, left, hist>>

UpdateTimedCall ==
    /\ pc = "Timed"
    /\ st' = UpdateTimedBodies(st)
    /\ evt' = [NoEvent EXCEPT
                 !.type = "update",
                 !.before = Len(st.m_timedBodies),
                 !.arg = Cardinality((TimedIds(st) \cap st.world)
                                     \ st'.world),
                 !.ticks = Cardinality((TimedIds(st) \ st.world)
                                       \ TimedIds(st'))]
    /\ UNCHANGED <<now, pc, left, hist>>

DestroyTimedCall ==
    /\ pc = "Timed"
    /\ st.m_timedBodies /= <<>>
    /\ st' = DestroyTimedBodies(st)
    /\ evt' = [NoEvent EXCEPT !.type = "clear",
                              !.before = Len(st.m_timedBodies)]
    /\ UNCHANGED <<now, pc, left, hist>>

TimedNext ==
    TimedSpawn \/ TimedInvalidate \/ UpdateTimedCall \/ DestroyTimedCall

SpecTimed == InitTimed /\ [][TimedNext]_vars /\ WF_vars(UpdateTimedCall)

---------------------------------------------------------------------------
(* Properties *)

Occurrences(q, x) == Cardinality({i \in 1..Len(q) : q[i] = x})

ExactlyOneKillRequest ==
    \A c \in DOMAIN st.m_characterHP :
        Occurrences(st.m_charactersToKill, c) =
            IF st.m_characterHP[c] = 0 THEN 1 ELSE 0

KilledByStatusTick ==
    /\ pc = "Flush2"
    /\ \E c \in DOMAIN st.m_characterHP :
           /\ st.m_characterHP[c] = 0
           /\ st.m_charactersToKill = <<c>>

(* C3: HP is never negative, and no step raises the HP of a character,     *)
(* except the lifesteal of a vampire knife's hit, which heals the knife's  *)
(* owner.                                                                  *)
LifestealOn(c) ==
    /\ evt'.type = "begin"
    /\ evt'.applied
    /\ InProjectileSet(st, evt'.attacker, "VampireKnife")
    /\ Get(st.m_weaponOwner, evt'.attacker, Null) = c

HPNeverNegativeNeverUp ==
    [][\A c \in DOMAIN st'.m_characterHP :
           /\ st'.m_characterHP[c] >= 0
           /\ c \in DOMAIN st.m_characterHP =>
                  \/ st'.m_characterHP[c] <= st.m_characterHP[c]
                  \/ LifestealOn(c)]_vars

ClampedToZero ==
    /\ evt.type = "begin"
    /\ evt.applied
    /\ evt.arg > evt.before
    /\ Get(st.m_characterHP, evt.victim, 1) = 0

(* C4: at the end of every Step, a body that has a freeze record has       *)
(* linear and angular velocity 0, whatever moved it during the Step.       *)
FrozenHeldAtStepEnd ==
    pc = "Begin" =>
        \A i \in 1..Len(st.m_activeFreezes) :
            LET b == st.m_activeFreezes[i].body
            IN BodyValid(st, b) => st.linVel[b] = 0 /\ st.angVel[b] = 0

WokenBodyHeld ==
    /\ pc = "Begin"
    /\ hist.woke /= Null
    /\ IsBodyCurrentlyFrozen(st, hist.woke)
    /\ st.linVel[hist.woke] = 0

(* C5: FreezeBodyAndJoint on a body that already has a freeze record sets *)
(* the record's expiry to the later of the current expiry and now +        *)
(* duration, adds no record, and leaves the snapshot, the velocities and   *)
(* the joints as they are.                                                 *)
RefreezeExtendsOnly ==
    [][(evt'.type = "freeze" /\ evt'.applied) =>
          /\ \E i \in FreezeIndex(st, evt'.attacker) :
                 st'.m_activeFreezes =
                     [st.m_activeFreezes EXCEPT
                        ![i].endTime = IF @ >= now + evt'.arg THEN @
                                       ELSE now + evt'.arg]
          /\ st'.linVel = st.linVel
          /\ st'.angVel = st.angVel
          /\ st'.joints = st.joints]_vars

RefreezeKeptLaterExpiry ==
    /\ evt.type = "freeze"
    /\ evt.applied
    /\ evt.before > now + evt.arg
    /\ EndTimeOf(st, evt.attacker) = evt.before
    /\ Cardinality(FreezeIndex(st, evt.attacker)) = 1

(* C7: a projectile body stops being valid only in a step of               *)
(* ProcessProjectileDestructions; the event handlers and every other phase *)
(* leave every projectile body valid.                                      *)
ProjectilesDieOnlyInFlush ==
    [][(ProjIds \cap st.valid) \subseteq st'.valid
       \/ pc \in {"Flush1", "Flush2"}]_vars

HandlerScheduledLiveProjectile ==
    /\ evt.type \in {"wall", "weapon", "begin", "killzone"}
    /\ BodyValid(st, evt.attacker)
    /\ Has(st.m_projectilesToDestroyMap, evt.attacker)

(* C8, as stated: while a projectile has a schedule entry, no step raises  *)
(* the timestamp stored for it.                                            *)
ScheduleNeverLater ==
    [][\A p \in DOMAIN st.m_projectilesToDestroyMap
                \cap DOMAIN st'.m_projectilesToDestroyMap :
           st'.m_projectilesToDestroyMap[p] <= st.m_projectilesToDestroyMap[p]
      ]_vars

(* C9: kill requests are appended only by the begin-touch loop, the status *)
(* ticks and the explosions of a flush; a character's body, its weapon and *)
(* its HP and weapon entries disappear only in a step of                   *)
(* ProcessPendingCharacterDeaths.                                          *)
DeathsOnlyInDeathPass ==
    [][/\ Len(st'.m_charactersToKill) > Len(st.m_charactersToKill) =>
              pc \in {"HitBegin", "Statuses", "Flush1", "Flush2"}
       /\ (\/ ~(((CharIds \cup WeaponIds) \cap st.valid) \subseteq st'.valid)
           \/ ~(DOMAIN st.m_characterHP \subseteq DOMAIN st'.m_characterHP)
           \/ ~(DOMAIN st.m_characterWeapon
                    \subseteq DOMAIN st'.m_characterWeapon)) =>
              pc \in {"Deaths1", "Deaths2"}]_vars

DeadCharacterAwaitsDeathPass ==
    /\ pc = "Deaths1"
    /\ st.m_charactersToKill /= <<>>
    /\ \A i \in 1..Len(st.m_charactersToKill) :
           LET c == st.m_charactersToKill[i]
           IN /\ BodyValid(st, c)
              /\ st.m_characterHP[c] = 0
              /\ BodyValid(st, st.m_characterWeapon[c])

(* C6, as stated: once a character has been killed, no registry table      *)
(* holds an entry keyed by the character or by its weapon.                 *)
PairHandles(s) ==
    UNION {{pk[1], pk[2]} : pk \in DOMAIN s.m_pairOverlap
                                    \cup DOMAIN s.m_damageCooldown}

RegistryHandles(s) ==
    DOMAIN s.m_characterHP \cup DOMAIN s.m_weaponDamage
    \cup DOMAIN s.m_weaponOwner \cup DOMAIN s.m_characterWeapon
    \cup DOMAIN s.m_weaponToJoint
    \cup {sh[1] : sh \in DOMAIN s.m_shapeToCharacter}
    \cup {sh[1] : sh \in s.m_shapeBaseColor}
    \cup DOMAIN s.m_characterSkinShape
    \cup {s.m_activeFreezes[i].body : i \in 1..Len(s.m_activeFreezes)}
    \cup DOMAIN s.m_poisonBuildUp \cup DOMAIN s.m_slashBuildUp
    \cup PairHandles(s)
    \cup DOMAIN s.m_vampireKnifeHealCount
    \cup DOMAIN s.m_vampireKnifeTotalHealed
    \cup ({s.m_characterId[k] : k \in Kinds} \ {Null})
    \cup ({s.m_weaponId[k] : k \in Kinds} \ {Null})

KilledLeavesNoEntry ==
    \A b \in (CharIds \cup WeaponIds) \ st.valid : b \notin RegistryHandles(st)

(* C10, as stated: once a projectile has been flushed, no table holds an   *)
(* entry keyed by its handle.                                              *)
ProjectileHandles(s) ==
    DOMAIN s.m_projectiles \cup DOMAIN s.m_shurikenReboundsLeft
    \cup DOMAIN s.m_weaponOwner \cup s.m_projectileSpawnPos
    \cup DOMAIN s.m_projectilesToDestroyMap
    \cup PairHandles(s)
    \cup DOMAIN s.m_weaponDamage

FlushedLeavesNoEntry ==
    \A p \in ProjIds \ st.valid : p \notin ProjectileHandles(st)

(* C11, as stated: the flush of a projectile that was fired as an explosion *)
(* projectile runs TriggerExplosion for it, once.  A projectile whose owner *)
(* was killed has left the explosion set before its flush, and is          *)
(* destroyed without exploding.                                            *)
ExplodesWheneverFlushed ==
    [][(pc \in {"Flush1", "Flush2"}) =>
          Len(st'.m_activeExplosions) =
              Len(st.m_activeExplosions)
              + Cardinality(hist.explosive \cap st.valid
                            \cap DueProjectiles(st, now))
      ]_vars

(* C11, amended: the flush of a due projectile that is still in the        *)
(* explosion set and valid runs TriggerExplosion once for it (one          *)
(* explosion record, stamped now) and then destroys its body; when one     *)
(* explosion is flushed, each registered character in range other than the *)
(* owner whose HP is above 0 loses the explosion's damage once, clamped at *)
(* 0, and every other character keeps its HP; with several explosions no   *)
(* character out of range loses HP.                                        *)
ExplosionDamageOf(s, p) ==
    IF Get(s.m_weaponDamage, p, 0) > 0 THEN s.m_weaponDamage[p]
    ELSE s.m_explosionDamage

ExplosionTargets(s, p, near) ==
    {c \in near : /\ c /= Get(s.m_weaponOwner, p, Null)
                  /\ \E k \in Kinds : s.m_characterId[k] = c}

ExplosionOncePerFlush ==
    [][(pc \in {"Flush1", "Flush2"}) =>
          LET due == DueExplosions(st, now)
              n == Len(st.m_activeExplosions)
          IN /\ Len(st'.m_activeExplosions) = n + Cardinality(due)
             /\ \A i \in (n + 1)..Len(st'.m_activeExplosions) :
                    st'.m_activeExplosions[i].startTime = now
             /\ due \cap st'.valid = {}
             /\ DOMAIN st'.m_characterHP = DOMAIN st.m_characterHP
             /\ \A c \in DOMAIN st.m_characterHP :
                    /\ st'.m_characterHP[c] <= st.m_characterHP[c]
                    /\ c \notin evt'.near =>
                           st'.m_characterHP[c] = st.m_characterHP[c]
             /\ \A p \in due :
                    due = {p} =>
                        \A c \in DOMAIN st.m_characterHP :
                            st'.m_characterHP[c] =
                                IF c \in ExplosionTargets(st, p, evt'.near)
                                THEN Max(0, st.m_characterHP[c]
                                              - ExplosionDamageOf(st, p))
                                ELSE st.m_characterHP[c]
      ]_vars

ExplosionHitNearby ==
    /\ evt.type = "flush"
    /\ evt.arg = 1
    /\ evt.near /= {}
    /\ TotalHP(st) < evt.before
    /\ st.m_activeExplosions /= <<>>
    /\ st.m_activeExplosions[Len(st.m_activeExplosions)].startTime = now

(* C12, as stated: a single touch of a shuriken with a wall or a weapon     *)
(* consumes one rebound, so that a shuriken fired with N bonus rebounds is *)
(* scheduled by its (N+2)-th touch: the begin-touch event of a further     *)
(* fixture of the shuriken in the same touch leaves the counter alone.     *)
(* The handlers decrement the counter on every begin-touch event.          *)
OneReboundPerTouch ==
    (evt.type \in {"wall", "weapon"} /\ evt.applied /\ evt.arg > 1) =>
        Get(st.m_shurikenReboundsLeft, evt.attacker, 0) = evt.before

FreezeRecordsOf(s, b) == SelectSeq(s.m_activeFreezes, LAMBDA f : f.body = b)

HitParties(s, e) ==
    {e.victim, e.attacker, Get(s.m_weaponOwner, e.attacker, e.attacker)}

VictimOwnsAttacker(s, victim, attacker) ==
    /\ Has(s.m_weaponOwner, attacker)
    /\ \/ s.m_weaponOwner[attacker] = victim
       \/ /\ Has(s.m_turretOwner, s.m_weaponOwner[attacker])
          /\ s.m_turretOwner[s.m_weaponOwner[attacker]] = victim

OwnTouchChangesNothing ==
    [][(/\ evt'.type = "begin"
        /\ VictimOwnsAttacker(st, evt'.victim, evt'.attacker)) =>
          st' = [st EXCEPT !.touching = st'.touching, !.begun = st'.begun]
      ]_vars

OwnTurretShotTouchedOwner ==
    /\ evt.type = "begin"
    /\ InProjectileSet(st, evt.attacker, "Turret")
    /\ st.m_weaponOwner[evt.attacker] \in st.m_turretIds
    /\ st.m_turretOwner[st.m_weaponOwner[evt.attacker]] = evt.victim
    /\ evt.victim = st.m_characterId["Wrench"]
    /\ ~evt.applied

(* C16: every stored pair overlap counter is at least 1; a begin-touch     *)
(* that passes the owner check stores the old count plus one, an end-touch *)
(* on a stored pair takes one off and erases the entry when that leaves 0, *)
(* so a count of 0 is never stored.                                        *)
OverlapOf(s, e) == Get(s.m_pairOverlap, <<e.victim, e.attacker>>, 0)

OverlapCountedOrAbsent ==
    /\ [](\A pk \in DOMAIN st.m_pairOverlap : st.m_pairOverlap[pk] >= 1)
    /\ [][((/\ evt'.type = "begin"
            /\ ~VictimOwnsAttacker(st, evt'.victim, evt'.attacker)
            /\ Has(st'.m_pairOverlap, <<evt'.victim, evt'.attacker>>)) =>
               OverlapOf(st', evt') = OverlapOf(st, evt') + 1)
          /\ ((evt'.type = "end") =>
               (/\ OverlapOf(st', evt') = Max(0, OverlapOf(st, evt') - 1)
                /\ (Has(st'.m_pairOverlap, <<evt'.victim, evt'.attacker>>)
                       <=> (OverlapOf(st, evt') >= 2))))
       ]_vars

LastEndTouchErasedPair ==
    /\ evt.type = "end"
    /\ evt.arg = 1
    /\ ~Has(st.m_pairOverlap, <<evt.victim, evt.attacker>>)
    /\ BodyValid(st, evt.victim)
    /\ BodyValid(st, evt.attacker)

(* C17, as stated: every key of the weapon-to-joint map is also a key of   *)
(* the weapon-to-owner map and names a weapon body that is still alive.    *)
JointKeysOwnedAndAlive ==
    \A w \in DOMAIN st.m_weaponToJoint :
        Has(st.m_weaponOwner, w) /\ BodyValid(st, w)

(* C18, as stated: the joint recorded for a live weapon in the             *)
(* weapon-to-joint map is the only revolute joint that attaches the weapon *)
(* to its owner, also after a spear upgrade has rebuilt the spear.         *)
DriveJointsOf(s, w) ==
    {j \in DOMAIN s.joints :
        /\ s.joints[j].bodyB = w
        /\ s.joints[j].bodyA = Get(s.m_weaponOwner, w, Null)}

OneDriveJointPerWeapon ==
    \A w \in DOMAIN st.m_weaponToJoint \cap st.valid :
        DriveJointsOf(st, w) = {st.m_weaponToJoint[w]}

(* C19: a contact or sensor event, begin or end, that names a shape which  *)
(* is no longer valid is skipped: no table, pair state, HP, freeze record  *)
(* or destroy schedule changes.                                            *)
StaleEventSkipped ==
    [][(evt'.type = "stale") => st' = st]_vars

StaleBeginTouchOnDeadSkin ==
    /\ evt.type = "stale"
    /\ evt.arg = 3
    /\ ~BodyValid(st, evt.victim)
    /\ BodyValid(st, evt.attacker)
    /\ Has(st.m_weaponDamage, evt.attacker)

DestroyedOnlyAtStepEnd ==
    [][(~(((ProjIds \cup CharIds) \cap st.valid) \subseteq st'.valid)) =>
          pc \in {"Flush2", "Deaths2"}]_vars

StaleArenaHandle(s) ==
    \/ \E ai \in Arenas : s.borderBody[ai] \notin s.world
    \/ \E ai \in Arenas : \E bi \in Bars :
           s.bars[ai][bi] /= Null /\ s.bars[ai][bi] \notin s.world

FreshHandles(s2, s1) == {b \in s2.world : b >= s1.nextBody}

(* C22: a step that finds a border body invalid, or a bar handle that is   *)
(* non-null and invalid, clears the ball, timed-body, drill-contact,       *)
(* hit-FX and pending-grow tables, resets the team statistics, rebuilds    *)
(* both arenas and respawns the participants, and does nothing else; a     *)
(* step that finds every border valid and every bar valid or null does not *)
(* recover.                                                                *)
RecoversExactlyOnStaleHandle ==
    [][(evt'.type = "step") =>
          IF StaleArenaHandle(st)
          THEN /\ evt'.applied
               /\ st'.m_timedBodies = <<>>
               /\ st'.m_drillContacts = {}
               /\ st'.m_hitFx = 0
               /\ st'.m_pendingGrow = 0
               /\ \A t \in Arenas : st'.m_team[t] = 0
               /\ \A ai \in Arenas :
                      /\ st'.borderBody[ai] \in FreshHandles(st', st)
                      /\ st'.lives[ai] = m_blockLivesDefault
                      /\ \A bi \in Bars :
                             /\ st'.bars[ai][bi] \in FreshHandles(st', st)
                             /\ ~st'.pendingKill[ai][bi]
               /\ st'.m_topBalls \subseteq FreshHandles(st', st)
               /\ st'.m_botBalls \subseteq FreshHandles(st', st)
               /\ Cardinality(st'.m_topBalls) = 1
               /\ Cardinality(st'.m_botBalls) = 1
               /\ \A i \in 1..Len(st.m_timedBodies) :
                      st.m_timedBodies[i].id \notin st'.world
          ELSE ~evt'.applied
      ]_vars

RecoveredAfterBarLostItsBody ==
    /\ evt.type = "step"
    /\ evt.applied
    /\ evt.arg = 1
    /\ evt.before = 0
    /\ evt.ticks = 3
    /\ st.m_timedBodies = <<>>
    /\ st.m_drillContacts = {}
    /\ st.m_hitFx = 0
    /\ \A ai \in Arenas : \A bi \in Bars : IsValidBody(st, st.bars[ai][bi])

JointRecords(s, j) ==
    {i \in 1..Len(s.m_activeFreezes) :
        s.m_activeFreezes[i].hadMotor /\ s.m_activeFreezes[i].joint = j}

(* C23, as stated: when a pass of UpdateFreezes removes the last freeze     *)
(* record that references a weapon joint, the joint's motor is enabled      *)
(* again, with the speed and the maximal torque it had, also when two       *)
(* records referenced the joint.  The record created second has saved a     *)
(* motor that the first freeze had disabled, and it is restored last.       *)
MotorRestoredAfterLastFreeze ==
    [][(pc \in {"Freezes1", "Freezes2"}) =>
          \A j \in DOMAIN st.joints \cap DOMAIN st'.joints :
              (JointRecords(st, j) /= {} /\ JointRecords(st', j) = {}) =>
                  /\ st'.joints[j].enableMotor
                  /\ st'.joints[j].motorSpeed = st.joints[j].motorSpeed
                  /\ st'.joints[j].maxMotorTorque = kMotorTorque]_vars

DamagingPair(s, victim, attacker) ==
    /\ ~OwnerBlocksHit(s, victim, attacker)
    /\ ContactDamage(s, attacker) > 0
    /\ Get(s.m_characterHP, victim, 0) > 0

(* C24: a begin-touch applies damage only if the pair's overlap counter was *)
(* 0 and the pair's cooldown had expired, and on a pair that can be damaged *)
(* it then does.  A first-enter begin-touch refused by the cooldown has     *)
(* raised the counter all the same, so no later begin-touch of that         *)
(* episode applies damage, not even after the cooldown has expired: damage  *)
(* comes back only with a begin-touch that finds the counter at 0 again, at *)
(* or after the expiry.                                                     *)
RefusedEnterConsumesEpisode ==
    [][(evt'.type = "begin") =>
          /\ evt'.applied => (evt'.arg = 0 /\ now >= evt'.before)
          /\ (evt'.arg = 0 /\ now >= evt'.before
                /\ DamagingPair(st, evt'.victim, evt'.attacker))
                   => evt'.applied]_vars

LaterFixtureAfterRefusedEnter ==
    /\ pc = "Episode"
    /\ evt.type = "begin"
    /\ ~evt.applied
    /\ evt.arg >= 1
    /\ evt.before > 0
    /\ now >= evt.before
    /\ <<evt.victim, evt.attacker>> \notin hist.hit
    /\ evt.attacker = WeaponId("Scythe")
    /\ ContactDamage(st, evt.attacker) > 0

(* C25, as stated: a damaging begin-touch leaves its victim with exactly    *)
(* one freeze record, whose expiry is at least the time of the hit plus the *)
(* hit-freeze duration, also when the victim was frozen already.  The call  *)
(* sites skip FreezeBodyAndJoint for a body that is frozen, so the running  *)
(* record keeps its earlier expiry.                                         *)
HitFreezeExtendsRunningFreeze ==
    [][(evt'.type = "begin" /\ evt'.applied) =>
          LET duration == IF Has(st.m_projectiles, evt'.attacker)
                          THEN kProjectileHitFreezeDefault
                          ELSE kHitFreezeDuration
              records == FreezeRecordsOf(st', evt'.victim)
          IN /\ Len(records) = 1
             /\ records[1].endTime >= now + duration]_vars

ProjectileEntered(s1, s2, e) ==
    /\ e.type = "begin"
    /\ Has(s1.m_projectiles, e.attacker)
    /\ Get(s2.m_pairOverlap, <<e.victim, e.attacker>>, 0) =
           Get(s1.m_pairOverlap, <<e.victim, e.attacker>>, 0) + 1

FirstEnter(s, e) == Get(s.m_pairOverlap, <<e.victim, e.attacker>>, 0) = 0

ReboundsLeft(s, p) == Get(s.m_shurikenReboundsLeft, p, 0)

ScheduledNow(s, p, t) ==
    Has(s.m_projectilesToDestroyMap, p) /\ s.m_projectilesToDestroyMap[p] = t

(* C26, as stated: on a first-enter begin-touch a projectile of a consumed  *)
(* kind is scheduled for destruction, and a shuriken loses one rebound and  *)
(* is scheduled only when its counter has become negative; a begin-touch    *)
(* that is not first-enter changes neither the schedule nor the counter.    *)
(* A shuriken whose hit applies damage is scheduled with rebounds left.     *)
ShurikenScheduledOnlyWhenSpent ==
    [][ProjectileEntered(st, st', evt') =>
          LET p == evt'.attacker
          IN IF ~FirstEnter(st, evt')
             THEN /\ st'.m_projectilesToDestroyMap =
                         st.m_projectilesToDestroyMap
                  /\ st'.m_shurikenReboundsLeft = st.m_shurikenReboundsLeft
             ELSE IF InProjectileSet(st, p, "Shuriken")
             THEN /\ ReboundsLeft(st', p) = ReboundsLeft(st, p) - 1
                  /\ IF ReboundsLeft(st', p) < 0
                     THEN ScheduledNow(st', p, now)
                     ELSE st'.m_projectilesToDestroyMap =
                              st.m_projectilesToDestroyMap
             ELSE (st.m_projectiles[p] \in ConsumedOnFirstEnter) =>
                      ScheduledNow(st', p, now)]_vars

(* C26, amended: as above, but a shuriken is scheduled when its counter has *)
(* become negative or when the begin-touch has applied damage: the          *)
(* damaging hit of a shuriken schedules it whatever rebounds it has left.   *)
FirstEnterConsumesProjectile ==
    [][ProjectileEntered(st, st', evt') =>
          LET p == evt'.attacker
          IN IF ~FirstEnter(st, evt')
             THEN /\ st'.m_projectilesToDestroyMap =
                         st.m_projectilesToDestroyMap
                  /\ st'.m_shurikenReboundsLeft = st.m_shurikenReboundsLeft
                  /\ ~evt'.applied
             ELSE IF InProjectileSet(st, p, "Shuriken")
             THEN /\ ReboundsLeft(st', p) = ReboundsLeft(st, p) - 1
                  /\ IF ReboundsLeft(st', p) < 0 \/ evt'.applied
                     THEN ScheduledNow(st', p, now)
                     ELSE st'.m_projectilesToDestroyMap =
                              st.m_projectilesToDestroyMap
             ELSE (st.m_projectiles[p] \in ConsumedOnFirstEnter) =>
                      ScheduledNow(st', p, now)]_vars

ShurikenSpentByDamagingHit ==
    /\ evt.type = "begin"
    /\ evt.applied
    /\ InProjectileSet(st, evt.attacker, "Shuriken")
    /\ Get(st.m_pairOverlap, <<evt.victim, evt.attacker>>, 0) = 1
    /\ ReboundsLeft(st, evt.attacker) >= 0
    /\ ScheduledNow(st, evt.attacker, now)

KilledIn(s1, s2) == (CharIds \cap s1.valid) \ s2.valid

OrphanedIn(s1, s2) ==
    {p \in ProjIds \cap s1.valid :
        Get(s1.m_weaponOwner, p, Null) \in KilledIn(s1, s2)}

Queued(s) == {s.m_charactersToKill[i] : i \in 1..Len(s.m_charactersToKill)}

DestroyCalls(s, b) == Get(s.destroyAsked, b, 0)

(* C28: a pass of ProcessPendingCharacterDeaths leaves the kill queue       *)
(* empty and runs KillCharacterNow once for every distinct character of the *)
(* queue, however often the queue names it: the character's body is handed  *)
(* to the destroy routine once by that pass (twice for the unarmed          *)
(* character, whose body is also its weapon), and no other character is     *)
(* touched.                                                                 *)
OneKillPerQueuedCharacter ==
    [][(evt'.type = "deaths") =>
          /\ st'.m_charactersToKill = <<>>
          /\ \A c \in CharIds \cap st.valid :
                 IF c \in Queued(st)
                 THEN /\ c \notin st'.valid
                      /\ DestroyCalls(st', c) - DestroyCalls(st, c) =
                             IF Get(st.m_characterWeapon, c, Null) = c
                             THEN 2 ELSE 1
                 ELSE /\ c \in st'.valid
                      /\ DestroyCalls(st', c) = DestroyCalls(st, c)]_vars

KilledOnceThoughQueuedTwice ==
    /\ evt.type = "deaths"
    /\ evt.arg = 3
    /\ st.m_charactersToKill = <<>>
    /\ \E c \in CharIds : c \notin st.valid /\ DestroyCalls(st, c) = 1
    /\ CharIds \cap st.valid /= {}

LastRecordOfJoint(s, i) ==
    \A k \in 1..Len(s.m_activeFreezes) :
        (k /= i /\ BodyValid(s, s.m_activeFreezes[k].body)
           /\ s.m_activeFreezes[k].hadMotor
           /\ s.m_activeFreezes[k].joint = s.m_activeFreezes[i].joint)
            => k < i

(* C29: a pass of UpdateFreezes at time t keeps exactly the records whose   *)
(* body is valid and whose expiry lies after t.  For a record that has      *)
(* expired the body is awake, with the saved velocities clamped to the      *)
(* resume limits, and the record's joint has the motor flag, speed and      *)
(* torque of the record's snapshot (no live record after it in the list     *)
(* writing the same joint).  A record whose body is invalid goes without    *)
(* any write to a body or to its joint.                                     *)
ExpiredFreezeRestored ==
    [][(evt'.type = "thaw") =>
          LET fs == st.m_activeFreezes
          IN /\ st'.m_activeFreezes =
                    SelectSeq(fs, LAMBDA f : BodyValid(st, f.body)
                                             /\ now' < f.endTime)
             /\ st'.valid = st.valid
             /\ \A i \in 1..Len(fs) :
                    IF ~BodyValid(st, fs[i].body)
                    THEN (JointValid(st, fs[i].joint)
                            /\ LastRecordOfJoint(st, i)
                            /\ \A k \in 1..(i - 1) : fs[k].joint /= fs[i].joint)
                             => st'.joints[fs[i].joint]
                                   = st.joints[fs[i].joint]
                    ELSE IF now' >= fs[i].endTime
                    THEN /\ fs[i].body \in st'.awake
                         /\ st'.linVel[fs[i].body] =
                                IF fs[i].savedLinearVelocity > kResumeLinClamp
                                THEN kResumeLinClamp
                                ELSE fs[i].savedLinearVelocity
                         /\ st'.angVel[fs[i].body] =
                                IF fs[i].savedAngularVelocity > kResumeAngClamp
                                THEN kResumeAngClamp
                                ELSE IF fs[i].savedAngularVelocity
                                           < 0 - kResumeAngClamp
                                THEN 0 - kResumeAngClamp
                                ELSE fs[i].savedAngularVelocity
                         /\ (fs[i].hadMotor /\ JointValid(st, fs[i].joint)
                               /\ LastRecordOfJoint(st, i)) =>
                                st'.joints[fs[i].joint] =
                                    [st.joints[fs[i].joint] EXCEPT
                                       !.enableMotor = fs[i].motorWasEnabled,
                                       !.motorSpeed = fs[i].savedMotorSpeed,
                                       !.maxMotorTorque =
                                           fs[i].savedMaxMotorTorque]
                    ELSE /\ fs[i].body \notin st'.awake
                         /\ st'.linVel[fs[i].body] = 0]_vars

ThawedMotorAndDroppedOrphan ==
    /\ evt.type = "thaw"
    /\ \E b \in st.awake : /\ st.linVel[b] = kResumeLinClamp
                           /\ st.angVel[b] = 0 - kResumeAngClamp
    /\ evt.arg >= 1
    /\ evt.before >= 1
    /\ st.m_activeFreezes = <<>>
    /\ \E j \in DOMAIN st.joints : st.joints[j].enableMotor

Accumulators(s) == DOMAIN s.m_poisonBuildUp \cup DOMAIN s.m_slashBuildUp

(* C30, as stated: right after the status pass of a step every poison or    *)
(* slash accumulator belongs to a victim that has an HP entry above 0, and  *)
(* at no time does a character that has been killed have one.  The kill     *)
(* erases the poison accumulator only, and UpdateSlashes looks at the       *)
(* victim's HP only when a tick is due.                                     *)
NoAccumulatorForDead ==
    /\ (pc = "Flush2") =>
           \A c \in Accumulators(st) :
               Has(st.m_characterHP, c) /\ st.m_characterHP[c] > 0
    /\ \A c \in hist.destroyed \cap CharIds : c \notin Accumulators(st)

---------------------------------------------------------------------------
(* Passive progression *)

PassiveCounters(s) ==
    <<s.m_katanaSlashStacks, s.m_scythePoisonStacks,
      s.m_shurikenBonusRebounds, s.m_spearLevel, s.m_explosionDamage>>

CountersAdvanced(s1, s2, is) ==
    \E i \in is : PassiveCounters(s2)[i] > PassiveCounters(s1)[i]

DamageAdvanced(s1, s2, ws) ==
    \E w \in ws \cap DOMAIN s1.m_weaponDamage \cap DOMAIN s2.m_weaponDamage :
        s2.m_weaponDamage[w] > s1.m_weaponDamage[w]

PassiveAdvanced(s1, s2) ==
    CountersAdvanced(s1, s2, 1..5) \/ DamageAdvanced(s1, s2, AllBodies)

ExplosionContact(s, e) ==
    e.type = "begin" /\ InProjectileSet(s, e.attacker, "Explosion")

(* C32: a begin-touch of an explosion projectile on a skin has contact      *)
(* damage 0 and changes no HP entry and no kill request; in a destruction   *)
(* flush HP is lowered only by a flushed explosion, for characters within   *)
(* its radius.                                                              *)
ExplosionContactDealsNoDamage ==
    [][/\ (pc = "HitBegin" /\ ExplosionContact(st, evt'))
            => /\ evt'.arg = 0
               /\ ~evt'.applied
               /\ st'.m_characterHP = st.m_characterHP
               /\ st'.m_charactersToKill = st.m_charactersToKill
       /\ (pc \in {"Flush1", "Flush2"})
            => \A c \in CharIds :
                   LoweredHP(st, st', c) => (evt'.arg >= 1 /\ c \in evt'.near)
      ]_vars

ExplosionProjectileTouchedSkin ==
    /\ ExplosionContact(st, evt)
    /\ evt.victim /= st.m_weaponOwner[evt.attacker]
    /\ evt.before > 0
    /\ st.m_characterHP[evt.victim] = evt.before
    /\ Has(st.m_projectilesToDestroyMap, evt.attacker)
    /\ st.m_explosionDamage > 0

---------------------------------------------------------------------------
(* Hits of the unarmed character *)

UnarmedHit(s, e) ==
    /\ e.type = "begin"
    /\ e.applied
    /\ e.attacker /= Null
    /\ e.attacker = s.m_characterId["Unarmed"]

(* C33, as stated: a damaging hit by the unarmed character creates no       *)
(* freeze record for its victim and leaves the victim's velocity as it was. *)
(* The code freezes the victim all the same and only passes no joint.       *)
UnarmedHitSkipsVictimFreeze ==
    [][(pc = "HitBegin" /\ UnarmedHit(st, evt'))
           => /\ FreezeRecordsOf(st', evt'.victim)
                     = FreezeRecordsOf(st, evt'.victim)
              /\ st'.linVel[evt'.victim] = st.linVel[evt'.victim]
              /\ st'.angVel[evt'.victim] = st.angVel[evt'.victim]]_vars

WeaponJointOf(s, c) ==
    IF Has(s.m_characterWeapon, c)
    THEN Get(s.m_weaponToJoint, s.m_characterWeapon[c], Null)
    ELSE Null

NewFreezeRecords(s1, s2, b) ==
    {i \in DOMAIN s2.m_activeFreezes :
        /\ s2.m_activeFreezes[i].body = b
        /\ i > Len(s1.m_activeFreezes)}

---------------------------------------------------------------------------
(* HP registry *)

(* C35: a character whose HP entry is 0 keeps HP 0 in every step for as     *)
(* long as it has an HP entry, also when a vampire knife of that character  *)
(* touches a foreign skin in the same event batch.                          *)
ZeroHPStaysZero ==
    [][\A c \in DOMAIN st.m_characterHP \cap DOMAIN st'.m_characterHP :
           st.m_characterHP[c] = 0 => st'.m_characterHP[c] = 0]_vars

KnifeTouchedWhileOwnerAtZero ==
    /\ evt.type = "begin"
    /\ InProjectileSet(st, evt.attacker, "VampireKnife")
    /\ evt.victim /= st.m_weaponOwner[evt.attacker]
    /\ evt.before > 0
    /\ Has(st.m_characterHP, st.m_weaponOwner[evt.attacker])
    /\ st.m_characterHP[st.m_weaponOwner[evt.attacker]] = 0
    /\ st.m_charactersToKill = <<st.m_weaponOwner[evt.attacker]>>

(* C36: when a step has returned, every character left in the HP registry   *)
(* has HP above 0 and no kill request is pending: whoever reached 0 during  *)
(* the step, by a hit, an explosion or a status tick, has been removed.     *)
NoZeroHPAtStepEnd ==
    (pc = "Begin") =>
        /\ \A c \in DOMAIN st.m_characterHP : st.m_characterHP[c] > 0
        /\ st.m_charactersToKill = <<>>
        /\ DOMAIN st.m_characterHP = CharIds \cap st.valid

DeadRemovedBeforeStepEnd ==
    /\ pc = "Begin"
    /\ st.m_stepCounter >= 1
    /\ hist.destroyed \cap CharIds /= {}
    /\ DOMAIN st.m_characterHP /= {}
    /\ \A c \in hist.destroyed \cap CharIds : ~Has(st.m_characterHP, c)

---------------------------------------------------------------------------
(* The lifesteal block of the damage branch on its own.  In Step() a        *)
(* vampire knife carries damage 0 and the block is never entered; here it   *)
(* is applied directly to the knives of a volley, with the damage of the    *)
(* hit as an input.                                                         *)

MaxHeals == 3

MaxHealDamage == 3

HealHPs == {1, kInitialHP - 1, kInitialHP}

InitLifesteal ==
    /\ \E hp1 \in HealHPs : \E hp2 \in HealHPs :
           st = FireVampireKnifeProjectile(
                    SpawnSelectedCharacters("VampireKnife", "Unarmed",
                                            hp1, hp2))
    /\ now = 0
    /\ pc = "Lifesteal"
    /\ evt = NoEvent
    /\ left = MaxHeals
    /\ hist = NoHistory

LifestealCall ==
    /\ pc = "Lifesteal"
    /\ left > 0
    /\ \E p \in ProjIds \cap st.valid : \E dmg \in 1..MaxHealDamage :
           LET ownerId == Get(st.m_weaponOwner, p, Null)
           IN /\ st' = VampireLifesteal(st, p, dmg)
              /\ evt' = [NoEvent EXCEPT
                           !.type = "heal",
                           !.attacker = p,
                           !.victim = ownerId,
                           !.arg = dmg,
                           !.before = Get(st.m_characterHP, ownerId, 0),
                           !.ticks = Get(st.m_vampireKnifeHealCount,
                                         ownerId, 0)]
    /\ left' = left - 1
    /\ UNCHANGED <<now, pc, hist>>

SpecLifesteal == InitLifesteal /\ [][LifestealCall]_vars

(* C37: no HP entry ever exceeds the 100 HP a character is created with;    *)
(* a lifesteal that would take the owner above 100 leaves it at 100.        *)
HPAtMostInitial ==
    /\ \A c \in DOMAIN st.m_characterHP : st.m_characterHP[c] <= kInitialHP
    /\ (evt.type = "heal") =>
           st.m_characterHP[evt.victim]
               = Min(kInitialHP,
                     evt.before + Max(1, evt.arg \div (1 + evt.ticks)))

HealCappedAtInitial ==
    /\ evt.type = "heal"
    /\ evt.before = kInitialHP - 1
    /\ evt.arg = 2
    /\ evt.ticks = 0
    /\ st.m_characterHP[evt.victim] = kInitialHP

---------------------------------------------------------------------------
(* ResolveWeaponMotorInversions.  The begin-contact events of the world     *)
(* step are a sequence of pairs of bodies whose solid shapes began to       *)
(* touch: a jointed weapon and either another one or its own owner.        *)
(* Freezes are requested between frames as a hit would, and each frame runs *)
(* UpdateFreezes, the inversions and UpdateFreezes again, in the order of   *)
(* Step().                                                                  *)

MaxContacts == 2

MaxInversionFrames == 3

InversionDts == {2, kMotorFlipCooldown}

MakePairKeySym(a, b) == IF a <= b THEN <<a, b>> ELSE <<b, a>>

OwnerFrozen(s, w) ==
    /\ Has(s.m_weaponOwner, w)
    /\ BodyValid(s, s.m_weaponOwner[w])
    /\ IsBodyCurrentlyFrozen(s, s.m_weaponOwner[w])

InversionSkipped(s, a, b) ==
    \/ ~BodyValid(s, a) \/ ~BodyValid(s, b)
    \/ IsBodyCurrentlyFrozen(s, a) \/ IsBodyCurrentlyFrozen(s, b)
    \/ ~Has(s.m_weaponToJoint, a) \/ ~Has(s.m_weaponToJoint, b)
    \/ ~JointValid(s, Get(s.m_weaponToJoint, a, Null))
    \/ ~JointValid(s, Get(s.m_weaponToJoint, b, Null))
    \/ OwnerFrozen(s, a) \/ OwnerFrozen(s, b)

MotorFlipReadyAlways(s, t, sk) == TRUE

MotorFlipReady(s, t, sk) ==
    ~(t - s.m_lastPairSwitchTime[sk] < kMotorFlipCooldown)

FlipMotor(s, j) ==
    IF s.joints[j].motorSpeed /= 0
    THEN [s EXCEPT !.joints[j].enableMotor = TRUE,
                   !.joints[j].motorSpeed = 0 - @]
    ELSE s

InvertPair(s, t, a, b) ==
    LET sk == MakePairKeySym(a, b)
        jA == s.m_weaponToJoint[a]
        jB == s.m_weaponToJoint[b]
        s0 == IF Has(s.m_lastPairSwitchTime, sk) THEN s
              ELSE [s EXCEPT !.m_lastPairSwitchTime = Put(@, sk, 0)]
    IN IF ~MotorFlipReady(s0, t, sk) THEN s0
       ELSE LET s1 == FlipMotor(FlipMotor(s0, jA), jB)
            IN IF s1.joints /= s0.joints
               THEN [s1 EXCEPT !.m_lastPairSwitchTime[sk] = t]
               ELSE s1

RECURSIVE ResolveFrom(_, _, _, _, _, _)
ResolveFrom(s, t, ev, i, weaponPairsProcessed, flipLatched) ==
    IF i > Len(ev) THEN s
    ELSE LET a == ev[i][1]
             b == ev[i][2]
             sk == MakePairKeySym(a, b)
         IN IF InversionSkipped(s, a, b)
            THEN ResolveFrom(s, t, ev, i + 1, weaponPairsProcessed,
                             flipLatched)
            ELSE IF sk \in weaponPairsProcessed
            THEN ResolveFrom(s, t, ev, i + 1, weaponPairsProcessed,
                             flipLatched)
            ELSE IF a \in flipLatched
            THEN ResolveFrom(s, t, ev, i + 1,
                             weaponPairsProcessed \cup {sk}, flipLatched)
            ELSE IF b \in flipLatched
            THEN ResolveFrom(s, t, ev, i + 1,
                             weaponPairsProcessed \cup {sk},
                             flipLatched \cup {a})
            ELSE ResolveFrom(InvertPair(s, t, a, b), t, ev, i + 1,
                             weaponPairsProcessed \cup {sk},
                             flipLatched \cup {a, b})

ResolveWeaponMotorInversions(s, t, ev) == ResolveFrom(s, t, ev, 1, {}, {})

ContactPairs(s) ==
    {pr \in (s.valid \cap DOMAIN s.m_weaponToJoint) \X s.valid :
        /\ pr[1] /= pr[2]
        /\ \/ Has(s.m_weaponToJoint, pr[2])
           \/ pr[2] = Get(s.m_weaponOwner, pr[1], Null)}

ContactBatches(s) ==
    UNION {[1..n -> ContactPairs(s)] : n \in 0..MaxContacts}

PreInversion(s, t) == UpdateFreezes([s EXCEPT !.m_stepCounter = @ + 1], t)

Flipped(s1, s2, w) ==
    /\ Has(s1.m_weaponToJoint, w)
    /\ JointValid(s1, s1.m_weaponToJoint[w])
    /\ JointValid(s2, s1.m_weaponToJoint[w])
    /\ s1.joints[s1.m_weaponToJoint[w]].motorSpeed /= 0
    /\ s2.joints[s1.m_weaponToJoint[w]].motorSpeed
           = 0 - s1.joints[s1.m_weaponToJoint[w]].motorSpeed

FlippedPairs(s1, s2) ==
    {sk \in (DOMAIN s1.m_weaponToJoint) \X (DOMAIN s1.m_weaponToJoint) :
        /\ sk[1] < sk[2]
        /\ Flipped(s1, s2, sk[1]) \/ Flipped(s1, s2, sk[2])}

InitInversion ==
    /\ \E r \in Rosters :
           st = SpawnSelectedCharacters(r[1], r[2], kInitialHP, kInitialHP)
    /\ now = 0
    /\ pc = "Freeze"
    /\ evt = NoEvent
    /\ left = MaxEvents
    /\ hist = NoHistory

InversionFrame ==
    /\ pc = "Freeze"
    /\ st.m_stepCounter < MaxInversionFrames
    /\ \E dt \in InversionDts :
           /\ now' = now + dt
           /\ \E ev \in ContactBatches(st) :
                  st' = UpdateFreezes(
                            ResolveWeaponMotorInversions(
                                PreInversion(st, now'), now', ev),
                            now')
    /\ evt' = [NoEvent EXCEPT
                 !.type = "invert",
                 !.applied = FlippedPairs(st, st') /= {},
                 !.arg = Cardinality({w \in DOMAIN st.m_weaponToJoint :
                                         Flipped(st, st', w)})]
    /\ hist' = [hist EXCEPT
                  !.flipped =
                      [sk \in DOMAIN @ \cup FlippedPairs(st, st') |->
                          IF sk \in FlippedPairs(st, st') THEN now'
                          ELSE @[sk]]]
    /\ UNCHANGED <<pc, left>>

SpecInversion == InitInversion /\ [][FreezeCall \/ InversionFrame]_vars

(* C38: a frame inverts the motor of a weapon only together with a partner  *)
(* weapon such that, when the inversions run, neither weapon nor either     *)
(* owner has a freeze record and the pair's last inversion, if any, lies at *)
(* least kMotorFlipCooldown back; the inversion is stamped with the current *)
(* time and leaves the motor enabled.                                       *)
InversionOnlyUnfrozenAndCooledDown ==
    [][(pc = "Freeze" /\ evt'.type = "invert") =>
           \A w \in DOMAIN st.m_weaponToJoint :
               Flipped(st, st', w) =>
                   \E v \in DOMAIN st.m_weaponToJoint \ {w} :
                       LET sk == MakePairKeySym(w, v)
                           mid == PreInversion(st, now')
                       IN /\ ~IsBodyCurrentlyFrozen(mid, w)
                          /\ ~IsBodyCurrentlyFrozen(mid, v)
                          /\ ~OwnerFrozen(mid, w)
                          /\ ~OwnerFrozen(mid, v)
                          /\ now' - Get(st.m_lastPairSwitchTime, sk, 0)
                                 >= kMotorFlipCooldown
                          /\ Has(hist.flipped, sk) =>
                                 now' - hist.flipped[sk] >= kMotorFlipCooldown
                          /\ st'.m_lastPairSwitchTime[sk] = now'
                          /\ st'.joints[st.m_weaponToJoint[w]].enableMotor
      ]_vars

InvertedAgainAfterCooldown ==
    /\ evt.type = "invert"
    /\ evt.applied
    /\ evt.arg = 2
    /\ left = 0
    /\ now = 2 * kMotorFlipCooldown + 2
    /\ \E sk \in DOMAIN hist.flipped :
           /\ hist.flipped[sk] = now
           /\ st.m_lastPairSwitchTime[sk] = now
           /\ st.joints[st.m_weaponToJoint[sk[1]]].motorSpeed = 1
           /\ st.joints[st.m_weaponToJoint[sk[2]]].motorSpeed = 1

(* C39: in BlockBreakerVS a bar hit spawns clones only of a primary ball:  *)
(* the balls that a step adds are clones of the ball that hit, which is    *)
(* primary, they are non-primary themselves, a non-primary ball has made   *)
(* no clone, and the clonesMade of a primary ball is at most               *)
(* clone.maxPerBall when that limit is not 0.                              *)
ClonesOnlyFromPrimary ==
    [][(evt'.type = "step" /\ ~evt'.applied) =>
           LET new == BallBodies(st') \ BallBodies(st)
           IN /\ \A b \in new : ~st'.ballUser[b].isPrimary
              /\ new /= {} =>
                     /\ evt'.attacker \in BallBodies(st)
                     /\ st.ballUser[evt'.attacker].isPrimary
                     /\ st'.ballUser[evt'.attacker].clonesMade =
                            st.ballUser[evt'.attacker].clonesMade
                            + Cardinality(new)
              /\ \A b \in BallBodies(st') :
                     LET bu == st'.ballUser[b]
                         C == st'.cfg[bu.team].clone
                     IN /\ ~bu.isPrimary => bu.clonesMade = 0
                        /\ (bu.isPrimary /\ C.maxPerBall /= 0) =>
                               bu.clonesMade <= C.maxPerBall]_vars

CloneHitAndLimitReached ==
    \E p \in BallBodies(st) : \E c \in BallBodies(st) :
        /\ st.ballUser[p].isPrimary
        /\ st.ballUser[p].hitCount >= 2
        /\ st.ballUser[p].clonesMade = 1
        /\ st.cfg[st.ballUser[p].team].clone.maxPerBall = 1
        /\ ~st.ballUser[c].isPrimary
        /\ st.ballUser[c].hitCount >= 1
        /\ Cardinality(BallBodies(st)) = 3

(* C40: an UpdateTimedBodies call removes from the timed-body list exactly *)
(* the entries whose TTL, lowered by one step, is 0 or below or whose body *)
(* is invalid, and leaves their bodies destroyed; the other entries stay,  *)
(* one step older.  b2DestroyBody is never called on a body that is        *)
(* already destroyed, and every timed body is eventually off the list.     *)
TimedBodyDue(s, tb) == tb.ttl - 1 <= 0 \/ ~IsValidBody(s, tb.id)

TimedBodyIds == 1..MaxTimedSpawns

TimedBodiesRemovedOnce ==
    /\ [][evt'.type = "update" =>
              \A i \in 1..Len(st.m_timedBodies) :
                  LET tb == st.m_timedBodies[i]
                  IN IF TimedBodyDue(st, tb)
                     THEN /\ tb.id \notin TimedIds(st')
                          /\ tb.id \notin st'.world
                     ELSE /\ tb.id \in st'.world
                          /\ \E j \in 1..Len(st'.m_timedBodies) :
                                 st'.m_timedBodies[j] =
                                     [tb EXCEPT !.ttl = @ - 1]]_vars
    /\ [](st.destroyedInvalid = {})
    /\ \A id \in TimedBodyIds :
           (id \in TimedIds(st)) ~> (id \notin TimedIds(st))

TimedBodiesExpiredAndFoundInvalid ==
    /\ evt.type = "update"
    /\ evt.arg >= 1
    /\ evt.ticks >= 1
    /\ st.m_timedBodies = <<>>

=============================================================================
